---- MODULE Spec2Model ----
(***************************************************************************)
(* Gridlords: the move-resolution rules, the move executor and the AI     *)
(* move negotiation (decideMove) of src/src/gridlords.ts, as a state      *)
(* machine of the turn loop of Game.GameController.                        *)
(*                                                                         *)
(* A Coordinate is a record [row, col]; a CoordinateString (the key       *)
(* "row,col" of the source) is the pair <<row, col>>.                      *)
(***************************************************************************)
EXTENDS Integers, Sequences, FiniteSets, TLC

(***************************************************************************)
(* GameConstants                                                           *)
(***************************************************************************)
GRID_SIZE == 5
VICTORY_CONDITION_CELLS == 13
INITIAL_SPECIAL_CELLS == 3
POWER_SOURCE_ATTACK_BONUS == 1
MAGIC_WELL_DEFENSE_BONUS == 1
SHIELD_DEFENSE_MODIFIER == 1
MIN_DICE_ROLL == 1
MAX_DICE_ROLL == 6
AI_PLAYER_ID == 1
\* one retry more than the source allows
AI_MAX_RETRIES_OneMore == 2 + 1
AI_MAX_RETRIES == 2

\* PLAYER_MARKS[id] of the source is PLAYER_MARKS[id + 1] here (1-based).
PLAYER_MARKS == <<"X", "O">>
\* The three special types: Power Source, Magic Well, Shield (in that order).
SPECIAL_TYPES == <<"PowerSource", "MagicWell", "Shield">>

EmptyCell == " "
PowerSource == SPECIAL_TYPES[1]
MagicWell == SPECIAL_TYPES[2]
Shield == SPECIAL_TYPES[3]

\* null / undefined of the source, for a string, a player id, a Coordinate
\* and a CoordinateString
Null == "null"
NullId == -1
NullCoord == [row |-> -1, col |-> -1]
NullCoordStr == <<-1, -1>>

PlayerId == {0, 1}

(***************************************************************************)
(* Bounds of the model (not program constants).                            *)
(***************************************************************************)
\* Number of turns of the turn loop explored from each starting position.
MaxTurns == 2

(***************************************************************************)
(* GameUtils                                                               *)
(***************************************************************************)
Rows == 0 .. (GRID_SIZE - 1)
\* every in-bounds Coordinate
AllCoords == [row : Rows, col : Rows]
\* every in-bounds CoordinateString
AllCoordStrs == Rows \X Rows

toCoordinateString(coord) == <<coord.row, coord.col>>

fromCoordinateString(coordStr) == [row |-> coordStr[1], col |-> coordStr[2]]

Abs(x) == IF x < 0 THEN -x ELSE x

\* A coordinate token of an input text: a letter (its offset from 'A') and a
\* decimal number, or text that is not of the form letter+number at all.
\* The pattern /^([A-Z])\s?([1-9]\d*)$/ needs a number >= 1.
MalformedToken == [letter |-> -1, num |-> 0]

parseCoordinateInput(token) ==
    IF token.letter < 0 \/ token.letter > 25 \/ token.num < 1
    THEN NullCoord
    ELSE LET row == token.letter
             col == token.num - 1
         IN  IF row < 0 \/ row >= GRID_SIZE \/ col < 0 \/ col >= GRID_SIZE
             THEN NullCoord
             ELSE [row |-> row, col |-> col]

formatCoordForUser(coord) == [letter |-> coord.row, num |-> coord.col + 1]

(***************************************************************************)
(* Core.Grid: cells[row][col]                                              *)
(***************************************************************************)
isValidCoordinate(coord) ==
    /\ coord.row >= 0 /\ coord.row < GRID_SIZE
    /\ coord.col >= 0 /\ coord.col < GRID_SIZE

getCell(cells, coord) ==
    IF isValidCoordinate(coord) THEN cells[coord.row][coord.col] ELSE EmptyCell

setCell(cells, coord, value) ==
    IF isValidCoordinate(coord)
    THEN [cells EXCEPT ![coord.row][coord.col] = value]
    ELSE cells

NewGrid == [r \in Rows |-> [c \in Rows |-> EmptyCell]]

(***************************************************************************)
(* Core.Player.  A player is a record                                      *)
(*   [id, mark, positions, ownedPowerSources, ownedMagicWells].            *)
(***************************************************************************)
NewPlayer(id) ==
    [id |-> id, mark |-> PLAYER_MARKS[id + 1], positions |-> {},
     ownedPowerSources |-> {}, ownedMagicWells |-> {}]

addPosition(player, coordStr) ==
    [player EXCEPT !.positions = @ \cup {coordStr}]

removePowerSource(player, coordStr) ==
    [player EXCEPT !.ownedPowerSources = @ \ {coordStr}]

removeMagicWell(player, coordStr) ==
    [player EXCEPT !.ownedMagicWells = @ \ {coordStr}]

\* removePosition without the clean-up of the two sets.
removePosition_NoCascade(player, coordStr) ==
    [player EXCEPT !.positions = @ \ {coordStr}]

removePosition(player, coordStr) ==
    removeMagicWell(
        removePowerSource([player EXCEPT !.positions = @ \ {coordStr}], coordStr),
        coordStr)

ownsPosition(player, coordStr) == coordStr \in player.positions

getPositionCount(player) == Cardinality(player.positions)

ownsAnyPowerSource(player) == Cardinality(player.ownedPowerSources) > 0

addPowerSource(player, coordStr) ==
    [player EXCEPT !.ownedPowerSources = @ \cup {coordStr}]

ownsAnyMagicWell(player) == Cardinality(player.ownedMagicWells) > 0

addMagicWell(player, coordStr) ==
    [player EXCEPT !.ownedMagicWells = @ \cup {coordStr}]

\* specials[coordStr] of the sparse overlay map; Null stands for undefined.
SpecialAt(specials, coordStr) ==
    IF coordStr \in DOMAIN specials THEN specials[coordStr] ELSE Null

\* specials[coordStr] = type
SetSpecial(specials, coordStr, type) ==
    [k \in (DOMAIN specials) \cup {coordStr} |->
        IF k = coordStr THEN type ELSE specials[k]]

\* delete specials[coordStr]
DeleteSpecial(specials, coordStr) ==
    [k \in (DOMAIN specials) \ {coordStr} |-> specials[k]]

(***************************************************************************)
(* Rules.GameRules                                                         *)
(***************************************************************************)
\* isAdjacent that counts the eight cells around the target.
isAdjacent_Diagonals(targetCoord, player) ==
    \E posStr \in player.positions :
        /\ Abs(posStr[1] - targetCoord.row) <= 1
        /\ Abs(posStr[2] - targetCoord.col) <= 1
        /\ <<targetCoord.row, targetCoord.col>> # posStr

isAdjacent(targetCoord, player) ==
    \E posStr \in player.positions :
        LET ownedCoord == fromCoordinateString(posStr)
            distance == Abs(ownedCoord.row - targetCoord.row)
                        + Abs(ownedCoord.col - targetCoord.col)
        IN  distance = 1

\* checkWinner that asks for more cells than the victory condition.
checkWinner_Above(players) ==
    IF getPositionCount(players[1]) > VICTORY_CONDITION_CELLS THEN players[1].id
    ELSE IF getPositionCount(players[2]) > VICTORY_CONDITION_CELLS THEN players[2].id
    ELSE NullId

\* players is the pair <<player 0, player 1>>
checkWinner(players) ==
    IF getPositionCount(players[1]) >= VICTORY_CONDITION_CELLS THEN players[1].id
    ELSE IF getPositionCount(players[2]) >= VICTORY_CONDITION_CELLS THEN players[2].id
    ELSE NullId

\* rollAttackDice that adds the bonus once for every Power Source owned.
rollAttackDice_Cumulative(attackerPlayer, baseRoll) ==
    baseRoll + POWER_SOURCE_ATTACK_BONUS * Cardinality(attackerPlayer.ownedPowerSources)

\* baseRoll is the value of randomInt(MIN_DICE_ROLL, MAX_DICE_ROLL)
rollAttackDice(attackerPlayer, baseRoll) ==
    LET powerBonus == IF ownsAnyPowerSource(attackerPlayer)
                      THEN POWER_SOURCE_ATTACK_BONUS ELSE 0
    IN  baseRoll + powerBonus

rollDefenseDice(defendingPlayer, defendedCoord, isShielded, activeMagicWellBonusTarget, baseRoll) ==
    LET shieldBonus == IF isShielded THEN SHIELD_DEFENSE_MODIFIER ELSE 0
        defendedCoordStr == toCoordinateString(defendedCoord)
        magicBonus == IF activeMagicWellBonusTarget = defendedCoordStr
                      THEN MAGIC_WELL_DEFENSE_BONUS ELSE 0
    IN  baseRoll + shieldBonus + magicBonus

isValid(r, c, gridSize) == r >= 0 /\ r < gridSize /\ c >= 0 /\ c < gridSize

Deltas == {<<-1, 0>>, <<1, 0>>, <<0, -1>>, <<0, 1>>}

\* getValidMoves offering an ATTACK on every occupied neighbour, the
\* player's own cells included.
getValidMoves_AttackAnyOccupied(player, opponent, cells, specials) ==
    LET targets ==
            {[row |-> posStr[1] + d[1], col |-> posStr[2] + d[2]] :
                posStr \in player.positions, d \in {<<-1, 0>>, <<1, 0>>, <<0, -1>>, <<0, 1>>}}
        inGrid == {t \in targets : isValid(t.row, t.col, GRID_SIZE)}
    IN  {[action |-> "FORTIFY", coord |-> fromCoordinateString(posStr)] :
            posStr \in {p \in player.positions : SpecialAt(specials, p) # Shield}}
        \cup {[action |-> "CONQUER", coord |-> t] :
                t \in {u \in inGrid : getCell(cells, u) = EmptyCell
                                       /\ SpecialAt(specials, toCoordinateString(u))
                                             \in {Null, Shield}}}
        \cup {[action |-> "ATTACK", coord |-> t] :
                t \in {u \in inGrid : getCell(cells, u) # EmptyCell}}

\* The moves getValidMoves returns, as a set of [action, coord] records: the
\* source builds a list and removes duplicates by the key "action:row,col",
\* which is what a set of records does.
getValidMoves(player, opponent, cells, specials) ==
    LET fortify ==
            {[action |-> "FORTIFY", coord |-> fromCoordinateString(posStr)] :
                posStr \in {p \in player.positions : SpecialAt(specials, p) # Shield}}
        targets ==
            {[row |-> posStr[1] + d[1], col |-> posStr[2] + d[2]] :
                posStr \in player.positions, d \in Deltas}
        inGrid == {t \in targets : isValid(t.row, t.col, GRID_SIZE)}
        conquer ==
            {[action |-> "CONQUER", coord |-> t] :
                t \in {u \in inGrid :
                        /\ getCell(cells, u) = EmptyCell
                        /\ SpecialAt(specials, toCoordinateString(u)) \in {Null, Shield}}}
        attack ==
            {[action |-> "ATTACK", coord |-> t] :
                t \in {u \in inGrid :
                        /\ getCell(cells, u) # EmptyCell
                        /\ ownsPosition(opponent, toCoordinateString(u))}}
    IN  fortify \cup conquer \cup attack

\* The order in which the loops of getValidMoves visit the four neighbours.
DeltaList == <<<<-1, 0>>, <<1, 0>>, <<0, -1>>, <<0, 1>>>>

\* The positions of a player as the sequence the outer loop of getValidMoves
\* visits.  The source iterates a Set in insertion order; the model keeps the
\* positions as a set and visits them row by row (the moves returned, as a
\* set, do not depend on the order).
RECURSIVE PositionList(_)
PositionList(positions) ==
    IF positions = {} THEN <<>>
    ELSE LET first == CHOOSE p \in positions :
                        \A q \in positions : p[1] < q[1] \/ (p[1] = q[1] /\ p[2] <= q[2])
         IN  <<first>> \o PositionList(positions \ {first})

\* The moves one pass of the outer loop pushes for the owned cell posStr.
MovesPushedFor(posStr, opponent, cells, specials) ==
    LET ownedCoord == fromCoordinateString(posStr)
        fortify == IF SpecialAt(specials, posStr) # Shield
                   THEN <<[action |-> "FORTIFY", coord |-> ownedCoord]>> ELSE <<>>
        neighbour(i) ==
            LET targetCoord == [row |-> ownedCoord.row + DeltaList[i][1],
                                col |-> ownedCoord.col + DeltaList[i][2]]
                targetCoordStr == toCoordinateString(targetCoord)
            IN  IF ~isValid(targetCoord.row, targetCoord.col, GRID_SIZE) THEN <<>>
                ELSE IF getCell(cells, targetCoord) = EmptyCell
                THEN IF SpecialAt(specials, targetCoordStr) \in {Null, Shield}
                     THEN <<[action |-> "CONQUER", coord |-> targetCoord]>> ELSE <<>>
                ELSE IF ownsPosition(opponent, targetCoordStr)
                THEN <<[action |-> "ATTACK", coord |-> targetCoord]>> ELSE <<>>
    IN  fortify \o neighbour(1) \o neighbour(2) \o neighbour(3) \o neighbour(4)

\* The list validMoves of getValidMoves before the duplicates are removed.
RECURSIVE validMovesPushed(_, _, _, _)
validMovesPushed(playerPositions, opponent, cells, specials) ==
    IF playerPositions = <<>> THEN <<>>
    ELSE MovesPushedFor(Head(playerPositions), opponent, cells, specials)
         \o validMovesPushed(Tail(playerPositions), opponent, cells, specials)

\* The key of the Map that removes the duplicates: `${action}:${coordStr}`.
MoveKey(move) == <<move.action, toCoordinateString(move.coord)>>

\* uniqueMoves that keeps every entry of the list.
uniqueMoves_KeepAll(validMoves) == validMoves

\* The entries of validMoves at the indices firsts, in their order.
EntriesAt(validMoves, firsts) ==
    [k \in 1 .. Cardinality(firsts) |->
        validMoves[CHOOSE i \in firsts : Cardinality({j \in firsts : j < i}) = k - 1]]

\* Array.from(uniqueMoves.values()): the first entry of every key, in the
\* order of insertion.
uniqueMoves(validMoves) ==
    EntriesAt(validMoves,
              {i \in 1 .. Len(validMoves) :
                  \A j \in 1 .. (i - 1) : MoveKey(validMoves[j]) # MoveKey(validMoves[i])})

\* The array getValidMoves returns.
getValidMovesList(player, opponent, cells, specials) ==
    uniqueMoves(validMovesPushed(PositionList(player.positions), opponent, cells, specials))

getValidMagicWellTargets(player) ==
    {fromCoordinateString(posStr) : posStr \in player.positions}

(***************************************************************************)
(* Game.GameController: the move executor.  A game g is the record         *)
(* [grid, players, specials] of the controller's fields; players is the    *)
(* pair <<player 0, player 1>>.  Every validateAndExecute* operator        *)
(* returns [ok, msg, g] (plus the rolls for an attack): ok is the boolean  *)
(* the method returns, msg the error message shown on rejection and g the  *)
(* fields after the call.                                                  *)
(***************************************************************************)
OtherId(id) == IF id = 0 THEN 1 ELSE 0

PlayerOf(g, id) == g.players[id + 1]

SetPlayer(g, player) == [g EXCEPT !.players[player.id + 1] = player]

\* claimCell that enters the cell in the player's positions only.
claimCell_LedgerOnly(g, coord, playerId) ==
    [g EXCEPT !.players[playerId + 1] =
                  addPosition(PlayerOf(g, playerId), toCoordinateString(coord))]

claimCell(g, coord, playerId) ==
    LET player == PlayerOf(g, playerId)
        coordStr == toCoordinateString(coord)
    IN  [g EXCEPT !.grid = setCell(g.grid, coord, player.mark),
                  !.players[playerId + 1] = addPosition(player, coordStr)]

Rejected(g, msg) ==
    [ok |-> FALSE, msg |-> msg, g |-> g,
     attackBase |-> 0, defenseBase |-> 0,
     attackRoll |-> 0, defenseRoll |-> 0, attackSuccessful |-> FALSE]

Processed(g) ==
    [ok |-> TRUE, msg |-> "", g |-> g,
     attackBase |-> 0, defenseBase |-> 0,
     attackRoll |-> 0, defenseRoll |-> 0, attackSuccessful |-> FALSE]

\* validateAndExecuteConquer with the adjacency guard before the emptiness guard.
validateAndExecuteConquer_AdjacencyFirst(g, playerId, targetCoord) ==
    IF ~isValidCoordinate(targetCoord)
    THEN Rejected(g, "outside the board")
    ELSE IF ~isAdjacent(targetCoord, PlayerOf(g, playerId))
    THEN Rejected(g, "not adjacent")
    ELSE IF getCell(g.grid, targetCoord) # EmptyCell
    THEN Rejected(g, "not empty")
    ELSE Processed(claimCell(g, targetCoord, playerId))

\* validateAndExecuteConquer that leaves a Power Source or Magic Well of the
\* target in the overlay and out of the player's sets.
validateAndExecuteConquer_ItemStays(g, playerId, targetCoord) ==
    IF ~isValidCoordinate(targetCoord)
    THEN Rejected(g, "outside the board")
    ELSE IF getCell(g.grid, targetCoord) # EmptyCell
    THEN Rejected(g, "not empty")
    ELSE IF ~isAdjacent(targetCoord, PlayerOf(g, playerId))
    THEN Rejected(g, "not adjacent")
    ELSE Processed(claimCell(g, targetCoord, playerId))

\* validateAndExecuteConquer without the guard on the target being empty.
validateAndExecuteConquer_NoEmptyGuard(g, playerId, targetCoord) ==
    IF ~isValidCoordinate(targetCoord)
    THEN Rejected(g, "outside the board")
    ELSE IF ~isAdjacent(targetCoord, PlayerOf(g, playerId))
    THEN Rejected(g, "not adjacent")
    ELSE Processed(claimCell(g, targetCoord, playerId))

\* validateAndExecuteConquer without the adjacency guard.
validateAndExecuteConquer_NoAdjacencyGuard(g, playerId, targetCoord) ==
    IF ~isValidCoordinate(targetCoord)
    THEN Rejected(g, "outside the board")
    ELSE IF getCell(g.grid, targetCoord) # EmptyCell
    THEN Rejected(g, "not empty")
    ELSE Processed(claimCell(g, targetCoord, playerId))

\* validateAndExecuteConquer that adds the item of the target to the player's
\* set and leaves it in the overlay as well.
validateAndExecuteConquer_ItemCopied(g, playerId, targetCoord) ==
    IF ~validateAndExecuteConquer_ItemStays(g, playerId, targetCoord).ok
    THEN validateAndExecuteConquer_ItemStays(g, playerId, targetCoord)
    ELSE IF SpecialAt(g.specials, toCoordinateString(targetCoord)) = PowerSource
    THEN Processed(claimCell(SetPlayer(g, addPowerSource(PlayerOf(g, playerId),
                                           toCoordinateString(targetCoord))),
                             targetCoord, playerId))
    ELSE IF SpecialAt(g.specials, toCoordinateString(targetCoord)) = MagicWell
    THEN Processed(claimCell(SetPlayer(g, addMagicWell(PlayerOf(g, playerId),
                                           toCoordinateString(targetCoord))),
                             targetCoord, playerId))
    ELSE Processed(claimCell(g, targetCoord, playerId))

validateAndExecuteConquer(g, playerId, targetCoord) ==
    LET player == PlayerOf(g, playerId)
        targetCoordStr == toCoordinateString(targetCoord)
        existingSpecial == SpecialAt(g.specials, targetCoordStr)
        captured ==
            IF existingSpecial = PowerSource
            THEN [g EXCEPT !.specials = DeleteSpecial(g.specials, targetCoordStr),
                           !.players[playerId + 1] = addPowerSource(player, targetCoordStr)]
            ELSE IF existingSpecial = MagicWell
            THEN [g EXCEPT !.specials = DeleteSpecial(g.specials, targetCoordStr),
                           !.players[playerId + 1] = addMagicWell(player, targetCoordStr)]
            ELSE g
    IN  IF ~isValidCoordinate(targetCoord)
        THEN Rejected(g, "outside the board")
        ELSE IF getCell(g.grid, targetCoord) # EmptyCell
        THEN Rejected(g, "not empty")
        ELSE IF ~isAdjacent(targetCoord, player)
        THEN Rejected(g, "not adjacent")
        ELSE Processed(claimCell(captured, targetCoord, playerId))

\* validateAndExecuteFortify without the guard on a Shield being there already.
validateAndExecuteFortify_NoShieldGuard(g, playerId, targetCoord) ==
    IF ~isValidCoordinate(targetCoord)
    THEN Rejected(g, "outside the board")
    ELSE IF ~ownsPosition(PlayerOf(g, playerId), toCoordinateString(targetCoord))
    THEN Rejected(g, "not controlled")
    ELSE Processed([g EXCEPT !.specials = SetSpecial(g.specials,
                                              toCoordinateString(targetCoord), Shield)])

validateAndExecuteFortify(g, playerId, targetCoord) ==
    LET player == PlayerOf(g, playerId)
        targetCoordStr == toCoordinateString(targetCoord)
        existingSpecial == SpecialAt(g.specials, targetCoordStr)
        removed ==
            IF existingSpecial = Null THEN g
            ELSE [g EXCEPT
                    !.players[playerId + 1] =
                        IF existingSpecial = PowerSource
                        THEN removePowerSource(player, targetCoordStr)
                        ELSE IF existingSpecial = MagicWell
                        THEN removeMagicWell(player, targetCoordStr)
                        ELSE player,
                    !.specials = DeleteSpecial(g.specials, targetCoordStr)]
    IN  IF ~isValidCoordinate(targetCoord)
        THEN Rejected(g, "outside the board")
        ELSE IF ~ownsPosition(player, targetCoordStr)
        THEN Rejected(g, "not controlled")
        ELSE IF SpecialAt(g.specials, targetCoordStr) = Shield
        THEN Rejected(g, "already fortified")
        ELSE Processed([removed EXCEPT
                          !.specials = SetSpecial(removed.specials, targetCoordStr, Shield)])

\* CaptureCell that leaves a Shield of the target in the overlay.
CaptureCell_KeepShield(g, playerId, targetCoord) ==
    claimCell(SetPlayer(g, removePosition(PlayerOf(g, OtherId(playerId)),
                                          toCoordinateString(targetCoord))),
              targetCoord, playerId)

\* The capture branch without the removePosition of the defender.
CaptureCell_DefenderKeeps(g, playerId, targetCoord) ==
    claimCell([g EXCEPT !.specials = DeleteSpecial(g.specials, toCoordinateString(targetCoord))],
              targetCoord, playerId)

\* The capture branch that takes the cell from the defender and leaves it empty.
CaptureCell_Razes(g, playerId, targetCoord) ==
    [SetPlayer(g, removePosition(PlayerOf(g, OtherId(playerId)),
                                 toCoordinateString(targetCoord)))
        EXCEPT !.grid = setCell(g.grid, targetCoord, EmptyCell)]

\* The capture branch of validateAndExecuteAttack (attackSuccessful is true).
CaptureCell(g, playerId, targetCoord) ==
    LET targetCoordStr == toCoordinateString(targetCoord)
        opponentId == OtherId(playerId)
        defenderSpecial == SpecialAt(g.specials, targetCoordStr)
        g1 == SetPlayer(g, removePosition(PlayerOf(g, opponentId), targetCoordStr))
        g2 == IF defenderSpecial = Shield
              THEN [g1 EXCEPT !.specials = DeleteSpecial(g1.specials, targetCoordStr)]
              ELSE IF defenderSpecial = PowerSource
              THEN [g1 EXCEPT
                      !.players[opponentId + 1] =
                          removePowerSource(PlayerOf(g1, opponentId), targetCoordStr),
                      !.specials = DeleteSpecial(g1.specials, targetCoordStr),
                      !.players[playerId + 1] =
                          addPowerSource(PlayerOf(g1, playerId), targetCoordStr)]
              ELSE IF defenderSpecial = MagicWell
              THEN [g1 EXCEPT
                      !.players[opponentId + 1] =
                          removeMagicWell(PlayerOf(g1, opponentId), targetCoordStr),
                      !.specials = DeleteSpecial(g1.specials, targetCoordStr),
                      !.players[playerId + 1] =
                          addMagicWell(PlayerOf(g1, playerId), targetCoordStr)]
              ELSE g1
    IN  claimCell(g2, targetCoord, playerId)

\* validateAndExecuteAttack where a failed attack breaks the Shield of the target.
validateAndExecuteAttack_FailureBreaksShield(g, playerId, targetCoord, bonusTarget, bonusFor, attackBase, defenseBase) ==
    LET player == PlayerOf(g, playerId)
        opponent == PlayerOf(g, OtherId(playerId))
        targetCoordStr == toCoordinateString(targetCoord)
        attackRoll == rollAttackDice(player, attackBase)
        defenseRoll == rollDefenseDice(opponent, targetCoord,
                                       SpecialAt(g.specials, targetCoordStr) = Shield,
                                       NullCoordStr, defenseBase)
    IN  IF ~isValidCoordinate(targetCoord) \/ ~ownsPosition(opponent, targetCoordStr)
           \/ ~isAdjacent(targetCoord, player)
        THEN Rejected(g, "rejected")
        ELSE [ok |-> TRUE, msg |-> "",
              g |-> IF attackRoll > defenseRoll
                    THEN CaptureCell(g, playerId, targetCoord)
                    ELSE [g EXCEPT !.specials = DeleteSpecial(g.specials, targetCoordStr)],
              attackBase |-> attackBase, defenseBase |-> defenseBase,
              attackRoll |-> attackRoll, defenseRoll |-> defenseRoll,
              attackSuccessful |-> attackRoll > defenseRoll]

\* validateAndExecuteAttack where equal rolls capture the cell.
validateAndExecuteAttack_TieWins(g, playerId, targetCoord, bonusTarget, bonusFor, attackBase, defenseBase) ==
    LET player == PlayerOf(g, playerId)
        opponent == PlayerOf(g, OtherId(playerId))
        targetCoordStr == toCoordinateString(targetCoord)
        attackRoll == rollAttackDice(player, attackBase)
        defenseRoll == rollDefenseDice(opponent, targetCoord,
                                       SpecialAt(g.specials, targetCoordStr) = Shield,
                                       NullCoordStr, defenseBase)
    IN  IF ~isValidCoordinate(targetCoord) \/ ~ownsPosition(opponent, targetCoordStr)
           \/ ~isAdjacent(targetCoord, player)
        THEN Rejected(g, "rejected")
        ELSE [ok |-> TRUE, msg |-> "",
              g |-> IF attackRoll >= defenseRoll
                    THEN CaptureCell(g, playerId, targetCoord) ELSE g,
              attackBase |-> attackBase, defenseBase |-> defenseBase,
              attackRoll |-> attackRoll, defenseRoll |-> defenseRoll,
              attackSuccessful |-> attackRoll >= defenseRoll]

\* bonusTarget / bonusFor are magicWellBonusTarget and
\* magicWellBonusActiveForPlayerId; attackBase and defenseBase are the two
\* values randomInt returns for the attacker's and the defender's die.
validateAndExecuteAttack(g, playerId, targetCoord, bonusTarget, bonusFor, attackBase, defenseBase) ==
    LET player == PlayerOf(g, playerId)
        opponent == PlayerOf(g, OtherId(playerId))
        targetCoordStr == toCoordinateString(targetCoord)
        defenderSpecial == SpecialAt(g.specials, targetCoordStr)
        isDefenderShielded == defenderSpecial = Shield
        isMagicWellBoosted == bonusFor = opponent.id /\ bonusTarget = targetCoordStr
        attackRoll == rollAttackDice(player, attackBase)
        defenseRoll == rollDefenseDice(opponent, targetCoord, isDefenderShielded,
                                       IF isMagicWellBoosted THEN targetCoordStr
                                       ELSE NullCoordStr,
                                       defenseBase)
        attackSuccessful == attackRoll > defenseRoll
    IN  IF ~isValidCoordinate(targetCoord)
        THEN Rejected(g, "outside the board")
        ELSE IF ~ownsPosition(opponent, targetCoordStr)
        THEN Rejected(g, "not enemy")
        ELSE IF ~isAdjacent(targetCoord, player)
        THEN Rejected(g, "not adjacent")
        ELSE [ok |-> TRUE, msg |-> "",
              g |-> IF attackSuccessful THEN CaptureCell(g, playerId, targetCoord) ELSE g,
              attackBase |-> attackBase, defenseBase |-> defenseBase,
              attackRoll |-> attackRoll, defenseRoll |-> defenseRoll,
              attackSuccessful |-> attackSuccessful]

processPlayerAction(g, playerId, action, coord, bonusTarget, bonusFor, attackBase, defenseBase) ==
    IF action = "CONQUER" THEN validateAndExecuteConquer(g, playerId, coord)
    ELSE IF action = "FORTIFY" THEN validateAndExecuteFortify(g, playerId, coord)
    ELSE IF action = "ATTACK"
    THEN validateAndExecuteAttack(g, playerId, coord, bonusTarget, bonusFor,
                                  attackBase, defenseBase)
    ELSE Rejected(g, "unknown action")

(***************************************************************************)
(* AI.GeminiAI: the reply of the suggestion service, its parser and the    *)
(* body of decideMove.                                                     *)
(*                                                                         *)
(* A reply is what callGeminiAPI returns: NoReply for null (HTTP error,    *)
(* timeout, no text) or the text, upper-cased and split in lines: the      *)
(* keyword and the coordinate token of the first line, and the label and   *)
(* the coordinate token of the second line (label "" when there is none).  *)
(***************************************************************************)
NoReply ==
    [text |-> FALSE, keyword |-> "", token |-> MalformedToken,
     wellLabel |-> "", wellToken |-> MalformedToken]

TextReply(keyword, token, wellLabel, wellToken) ==
    [text |-> TRUE, keyword |-> keyword, token |-> token,
     wellLabel |-> wellLabel, wellToken |-> wellToken]

\* An AIMove / AIParsedResponse; NullCoord as magicWellTargetCoord is undefined.
AIMove(action, coord, magicWellTargetCoord) ==
    [action |-> action, coord |-> coord, magicWellTargetCoord |-> magicWellTargetCoord]

NullMove == AIMove(Null, NullCoord, NullCoord)

\* /^[A-Z][1-9]\d*$/
MatchesCoordPattern(token) ==
    token.letter >= 0 /\ token.letter <= 25 /\ token.num >= 1

parseAIResponse(reply) ==
    LET mainMatch == /\ reply.keyword \in {"CONQUER", "FORTIFY", "ATTACK"}
                     /\ MatchesCoordPattern(reply.token)
        coord == parseCoordinateInput(reply.token)
        wellMatch == reply.wellLabel = "WELL_TARGET" /\ MatchesCoordPattern(reply.wellToken)
        magicWellTargetCoord ==
            IF reply.wellLabel # "" /\ wellMatch
            THEN parseCoordinateInput(reply.wellToken)
            ELSE NullCoord
    IN  IF ~mainMatch THEN NullMove
        ELSE IF coord = NullCoord THEN NullMove
        ELSE AIMove(reply.keyword, coord, magicWellTargetCoord)

\* SuggestionIsValid without the adjacency check of a CONQUER.
SuggestionIsValid_NoConquerAdjacency(g, aiId, parsed) ==
    LET aiPlayer == PlayerOf(g, aiId)
        humanPlayer == PlayerOf(g, OtherId(aiId))
        targetCoordStr == toCoordinateString(parsed.coord)
    IN  IF parsed.action = "CONQUER"
        THEN getCell(g.grid, parsed.coord) = EmptyCell
        ELSE IF parsed.action = "FORTIFY"
        THEN /\ ownsPosition(aiPlayer, targetCoordStr)
             /\ SpecialAt(g.specials, targetCoordStr) # Shield
        ELSE IF parsed.action = "ATTACK"
        THEN /\ ownsPosition(humanPlayer, targetCoordStr)
             /\ isAdjacent(parsed.coord, aiPlayer)
        ELSE TRUE

\* SuggestionIsValid without the adjacency check of an ATTACK.
SuggestionIsValid_NoAttackAdjacency(g, aiId, parsed) ==
    LET aiPlayer == PlayerOf(g, aiId)
        humanPlayer == PlayerOf(g, OtherId(aiId))
        targetCoordStr == toCoordinateString(parsed.coord)
    IN  IF parsed.action = "CONQUER"
        THEN /\ getCell(g.grid, parsed.coord) = EmptyCell
             /\ isAdjacent(parsed.coord, aiPlayer)
        ELSE IF parsed.action = "FORTIFY"
        THEN /\ ownsPosition(aiPlayer, targetCoordStr)
             /\ SpecialAt(g.specials, targetCoordStr) # Shield
        ELSE ownsPosition(humanPlayer, targetCoordStr)

\* "Basic validation of the AI's choices" in decideMove: the value of isValid.
SuggestionIsValid(g, aiId, parsed) ==
    LET aiPlayer == PlayerOf(g, aiId)
        humanPlayer == PlayerOf(g, OtherId(aiId))
        targetCoordStr == toCoordinateString(parsed.coord)
        targetCellState == getCell(g.grid, parsed.coord)
        targetSpecial == SpecialAt(g.specials, targetCoordStr)
    IN  IF parsed.action = "CONQUER"
        THEN /\ targetCellState = EmptyCell
             /\ isAdjacent(parsed.coord, aiPlayer)
        ELSE IF parsed.action = "FORTIFY"
        THEN /\ ownsPosition(aiPlayer, targetCoordStr)
             /\ targetSpecial # Shield
        ELSE IF parsed.action = "ATTACK"
        THEN /\ ownsPosition(humanPlayer, targetCoordStr)
             /\ isAdjacent(parsed.coord, aiPlayer)
        ELSE TRUE

\* ValidatedWellTarget without the check that the target is a cell of the AI.
ValidatedWellTarget_NoOwnershipCheck(g, aiId, parsed) ==
    IF parsed.magicWellTargetCoord = NullCoord THEN NullCoord
    ELSE IF ~ownsAnyMagicWell(PlayerOf(g, aiId)) THEN NullCoord
    ELSE parsed.magicWellTargetCoord

\* "Validate Magic Well Target if provided" in decideMove.
ValidatedWellTarget(g, aiId, parsed) ==
    LET aiPlayer == PlayerOf(g, aiId)
    IN  IF parsed.magicWellTargetCoord = NullCoord THEN NullCoord
        ELSE IF ~ownsAnyMagicWell(aiPlayer) THEN NullCoord
        ELSE IF ~ownsPosition(aiPlayer, toCoordinateString(parsed.magicWellTargetCoord))
        THEN NullCoord
        ELSE parsed.magicWellTargetCoord

\* One iteration of the retry loop of decideMove after callGeminiAPI has
\* returned reply: the new value of parsedResponse.
DecideAttempt(g, aiId, reply) ==
    IF ~reply.text THEN NullMove
    ELSE LET parsed == parseAIResponse(reply)
         IN  IF parsed = NullMove THEN NullMove
             ELSE IF ~SuggestionIsValid(g, aiId, parsed) THEN NullMove
             ELSE [parsed EXCEPT !.magicWellTargetCoord = ValidatedWellTarget(g, aiId, parsed)]

\* The moves the fallback of decideMove draws from (getRandomElement).
FallbackMoves(g, aiId) ==
    {AIMove(m.action, m.coord, NullCoord) :
        m \in getValidMoves(PlayerOf(g, aiId), PlayerOf(g, OtherId(aiId)), g.grid, g.specials)}

\* "Finalize Magic Well Target": the values decideMove can return for a
\* non-null parsedResponse.
FinalizedMoves(g, aiId, parsed) ==
    LET aiPlayer == PlayerOf(g, aiId)
        validTargets == getValidMagicWellTargets(aiPlayer)
    IN  IF ownsAnyMagicWell(aiPlayer) /\ parsed.magicWellTargetCoord = NullCoord
           /\ validTargets # {}
        THEN {[parsed EXCEPT !.magicWellTargetCoord = t] : t \in validTargets}
        ELSE {parsed}

(***************************************************************************)
(* Inputs: the texts a human types and the replies the service sends.      *)
(***************************************************************************)
\* Coordinate tokens: every cell of the board, a row letter past the last
\* row, a column number past the last column, and a text that is no
\* coordinate.
Tokens ==
    {formatCoordForUser(c) : c \in AllCoords}
    \cup {[letter |-> GRID_SIZE, num |-> 1], [letter |-> 0, num |-> GRID_SIZE + 1],
          MalformedToken}

\* The action letter of promptPlayerMove ("Q" is no action).
ActionLetters == {"C", "F", "A", "Q"}

\* The texts typed at the move prompt: an action letter and a coordinate.
HumanInputs ==
    {<<letter, token>> : letter \in {"C", "F", "A"}, token \in Tokens}
    \cup {<<"Q", formatCoordForUser([row |-> 0, col |-> 0])>>}

actionMap(letter) ==
    IF letter = "C" THEN "CONQUER"
    ELSE IF letter = "F" THEN "FORTIFY"
    ELSE IF letter = "A" THEN "ATTACK"
    ELSE Null

\* Second lines of a reply: none, a WELL_TARGET naming a seed cell, a cell
\* off the board or no coordinate at all, and a line with another label.
WellLines ==
    {<<"", MalformedToken>>,
     <<"WELL_TARGET", formatCoordForUser([row |-> 0, col |-> 0])>>,
     <<"WELL_TARGET", formatCoordForUser([row |-> GRID_SIZE - 1, col |-> GRID_SIZE - 1])>>,
     <<"WELL_TARGET", [letter |-> GRID_SIZE, num |-> 1]>>,
     <<"WELL_TARGET", MalformedToken>>,
     <<"TARGET", formatCoordForUser([row |-> GRID_SIZE - 1, col |-> GRID_SIZE - 1])>>}

Replies ==
    {NoReply}
    \cup {TextReply(k, t, w[1], w[2]) :
            k \in {"CONQUER", "FORTIFY", "ATTACK", "PASS"}, t \in Tokens, w \in WellLines}

Dice == MIN_DICE_ROLL .. MAX_DICE_ROLL

(***************************************************************************)
(* setupInitialState and the positions the model starts from.              *)
(***************************************************************************)
\* The board after the two claimCell calls of setupInitialState.
SeededGame ==
    claimCell(
        claimCell([grid |-> NewGrid, players |-> <<NewPlayer(0), NewPlayer(1)>>,
                   specials |-> <<>>],
                  [row |-> 0, col |-> 0], 0),
        [row |-> GRID_SIZE - 1, col |-> GRID_SIZE - 1], 1)

\* setupInitialState: the k-th special placed is SPECIAL_TYPES[k], on cells
\* that are empty and hold no special yet; sites is the sequence of cells the
\* placement loop accepted.
setupInitialState(sites) ==
    [SeededGame EXCEPT
        !.specials = [k \in {sites[i] : i \in 1 .. Len(sites)} |->
                        LET specialsPlaced == (CHOOSE i \in 1 .. Len(sites) : sites[i] = k) - 1
                        IN  SPECIAL_TYPES[(specialsPlaced % Len(SPECIAL_TYPES)) + 1]]]

\* The placement loop accepts a cell that is empty and holds no special.
PlacementAccepted(sites) ==
    /\ Len(sites) <= INITIAL_SPECIAL_CELLS
    /\ \A i, j \in 1 .. Len(sites) : i # j => sites[i] # sites[j]
    /\ \A i \in 1 .. Len(sites) :
          /\ sites[i] \in AllCoordStrs
          /\ getCell(SeededGame.grid, fromCoordinateString(sites[i])) = EmptyCell

\* A scripted move of an opening: the action, its target and the two dice.
Move(action, row, col, attackBase, defenseBase) ==
    [action |-> action, coord |-> [row |-> row, col |-> col],
     attackBase |-> attackBase, defenseBase |-> defenseBase]

\* The game after the moves of an opening, played in turn from player
\* `playerId` on through processPlayerAction (the bonus slot is empty during
\* every action: executePlayerTurn clears it before the action is read).  A
\* rejected move ends the script.
RECURSIVE Replay(_, _, _)
Replay(g, moves, playerId) ==
    IF moves = <<>> THEN g
    ELSE LET r == processPlayerAction(g, playerId, Head(moves).action, Head(moves).coord,
                                      NullCoordStr, NullId,
                                      Head(moves).attackBase, Head(moves).defenseBase)
         IN  IF r.ok THEN Replay(r.g, Tail(moves), OtherId(playerId)) ELSE g

\* Every move of the opening is accepted by the executor.
RECURSIVE ReplayAccepted(_, _, _)
ReplayAccepted(g, moves, playerId) ==
    IF moves = <<>> THEN TRUE
    ELSE LET r == processPlayerAction(g, playerId, Head(moves).action, Head(moves).coord,
                                      NullCoordStr, NullId,
                                      Head(moves).attackBase, Head(moves).defenseBase)
         IN  r.ok /\ ReplayAccepted(r.g, Tail(moves), OtherId(playerId))

\* X walks along row A, O walks up column 5: the two territories touch.
ContactOpening ==
    <<Move("CONQUER", 0, 1, 1, 1), Move("CONQUER", 3, 4, 1, 1),
      Move("CONQUER", 0, 2, 1, 1), Move("CONQUER", 2, 4, 1, 1),
      Move("CONQUER", 0, 3, 1, 1), Move("CONQUER", 1, 4, 1, 1),
      Move("CONQUER", 0, 4, 1, 1)>>

\* After the contact, X takes O's cells one by one while O's attacks fail,
\* down to O's last cell; X is to move.
OLastCellOpening ==
    ContactOpening \o
    <<Move("ATTACK", 0, 4, 1, 6), Move("ATTACK", 1, 4, 6, 1),
      Move("ATTACK", 1, 4, 1, 6), Move("ATTACK", 2, 4, 6, 1),
      Move("ATTACK", 2, 4, 1, 6), Move("ATTACK", 3, 4, 6, 1),
      Move("ATTACK", 3, 4, 1, 6)>>

\* After the contact, O takes X's cells one by one while X's attacks fail,
\* down to X's last cell; O is to move.
XLastCellOpening ==
    ContactOpening \o
    <<Move("ATTACK", 0, 4, 6, 1), Move("ATTACK", 0, 4, 1, 6),
      Move("ATTACK", 0, 3, 6, 1), Move("ATTACK", 0, 3, 1, 6),
      Move("ATTACK", 0, 2, 6, 1), Move("ATTACK", 0, 2, 1, 6),
      Move("ATTACK", 0, 1, 6, 1), Move("ATTACK", 0, 1, 1, 6)>>

\* O fortifies its seed cell while X grows down column 1; O is to move.
FortifiedCornerOpening ==
    <<Move("CONQUER", 1, 0, 1, 1), Move("FORTIFY", 4, 4, 1, 1),
      Move("CONQUER", 2, 0, 1, 1)>>

\* X fills rows A and B and the start of row C, O fills rows E and D and the
\* end of row C: each side owns 12 cells, C3 is the only empty cell, X is to
\* move.
TwelveEachOpening ==
    <<Move("CONQUER", 0, 1, 1, 1), Move("CONQUER", 4, 3, 1, 1),
      Move("CONQUER", 0, 2, 1, 1), Move("CONQUER", 4, 2, 1, 1),
      Move("CONQUER", 0, 3, 1, 1), Move("CONQUER", 4, 1, 1, 1),
      Move("CONQUER", 0, 4, 1, 1), Move("CONQUER", 4, 0, 1, 1),
      Move("CONQUER", 1, 4, 1, 1), Move("CONQUER", 3, 0, 1, 1),
      Move("CONQUER", 1, 3, 1, 1), Move("CONQUER", 3, 1, 1, 1),
      Move("CONQUER", 1, 2, 1, 1), Move("CONQUER", 3, 2, 1, 1),
      Move("CONQUER", 1, 1, 1, 1), Move("CONQUER", 3, 3, 1, 1),
      Move("CONQUER", 1, 0, 1, 1), Move("CONQUER", 3, 4, 1, 1),
      Move("CONQUER", 2, 0, 1, 1), Move("CONQUER", 2, 4, 1, 1),
      Move("CONQUER", 2, 1, 1, 1), Move("CONQUER", 2, 3, 1, 1)>>

\* Placements of the three specials (Power Source, Magic Well, Shield, in
\* the order setupInitialState places them).
SitesNearX == <<<<0, 1>>, <<3, 4>>, <<4, 3>>>>
SitesNearO == <<<<3, 4>>, <<4, 3>>, <<0, 1>>>>
SitesOnContact == <<<<0, 4>>, <<2, 4>>, <<1, 4>>>>
SitesOnCentre == <<<<0, 1>>, <<2, 2>>, <<4, 3>>>>

\* A starting position: the game mode chosen, the cells the random
\* placement picked and the moves played so far.
Start(mode, sites, opening) == [mode |-> mode, sites |-> sites, opening |-> opening]

Starts ==
    {Start("PvE", SitesNearX, <<>>),
     Start("PvP", SitesNearX, <<>>),
     Start("PvE", SitesNearO, <<>>),
     Start("PvE", SitesOnContact, ContactOpening),
     Start("PvE", SitesNearX, OLastCellOpening),
     Start("PvE", SitesNearX, XLastCellOpening),
     Start("PvE", SitesNearO, FortifiedCornerOpening),
     Start("PvP", SitesOnCentre, TwelveEachOpening)}

(***************************************************************************)
(* The state of Game.GameController and of the running turn.               *)
(***************************************************************************)
VARIABLES
    grid,                             \* Grid.cells
    players,                          \* <<players[0], players[1]>>
    specials,                         \* the overlay map of specials on the board
    currentPlayerId,
    isGameOver,
    gameMode,                         \* "PvP" or "PvE"
    magicWellBonusTarget,             \* a CoordinateString or NullCoordStr
    magicWellBonusActiveForPlayerId,  \* a player id or NullId
    lastAIMoveResult,
    pc,                \* where the turn loop stands
    attempts,          \* decideMove: attempts (setupInitialState: attempts, while it runs)
    parsedResponse,    \* decideMove: parsedResponse
    aiMove,            \* executeAITurn: the value decideMove returned
    requests,          \* number of callGeminiAPI calls of the running decideMove
    replyKinds,        \* the kinds of reply the running decideMove has received
    usedFallback,      \* the running decideMove drew its move from getValidMoves
    lastResult,        \* what the last input or action of the running turn did
    turns,             \* number of turns started
    potentialCoords,   \* setupInitialState: potentialCoords
    specialsPlaced     \* setupInitialState: specialsPlaced

vars == <<grid, players, specials, currentPlayerId, isGameOver, gameMode,
          magicWellBonusTarget, magicWellBonusActiveForPlayerId, lastAIMoveResult,
          pc, attempts, parsedResponse, aiMove, requests, replyKinds, usedFallback,
          lastResult, turns, potentialCoords, specialsPlaced>>

\* The locals of setupInitialState; they are gone once it has returned.
SetupLocals == <<potentialCoords, specialsPlaced>>

\* The fields the executor reads and writes.
Game == [grid |-> grid, players |-> players, specials |-> specials]

NoResult ==
    [outcome |-> "none", msg |-> "", playerId |-> NullId, action |-> Null,
     coord |-> NullCoord, attackBase |-> 0, defenseBase |-> 0,
     attackRoll |-> 0, defenseRoll |-> 0, attackSuccessful |-> FALSE,
     targetSpecial |-> Null, targetPower |-> FALSE, targetMagic |-> FALSE]

\* The record of a call of processPlayerAction on game g that returned res:
\* the action, the dice and the rolls, and what the target held before the call (the
\* special of the overlay, and whether its owner had it in its Power Source
\* / Magic Well set).  Of a rejected action only the rejection and its
\* message are kept.
ResultOf(res, g, playerId, action, coord) ==
    IF res.ok
    THEN [outcome |-> "processed", msg |-> res.msg,
          playerId |-> playerId, action |-> action, coord |-> coord,
          attackBase |-> res.attackBase, defenseBase |-> res.defenseBase,
          attackRoll |-> res.attackRoll, defenseRoll |-> res.defenseRoll,
          attackSuccessful |-> res.attackSuccessful,
          targetSpecial |-> SpecialAt(g.specials, toCoordinateString(coord)),
          targetPower |-> \E id \in PlayerId :
                             toCoordinateString(coord) \in PlayerOf(g, id).ownedPowerSources,
          targetMagic |-> \E id \in PlayerId :
                             toCoordinateString(coord) \in PlayerOf(g, id).ownedMagicWells]
    ELSE [NoResult EXCEPT !.outcome = "rejected", !.msg = res.msg, !.playerId = playerId]

\* The values randomInt can return for a die of an action: only an attack
\* that has passed its three guards rolls the dice.
DiceFor(g, playerId, action, coord) ==
    IF /\ action = "ATTACK"
       /\ isValidCoordinate(coord)
       /\ ownsPosition(PlayerOf(g, OtherId(playerId)), toCoordinateString(coord))
       /\ isAdjacent(coord, PlayerOf(g, playerId))
    THEN Dice
    ELSE {MIN_DICE_ROLL}

Init ==
    /\ \E start \in Starts :
          LET opening == start.opening
              g0 == setupInitialState(start.sites)
              g == Replay(g0, opening, 0)
              mover == OtherId(Len(opening) % 2)
          IN  /\ PlacementAccepted(start.sites)
              /\ ReplayAccepted(g0, opening, 0)
              /\ checkWinner(g.players) = NullId
              /\ gameMode = start.mode
              /\ grid = g.grid
              /\ players = g.players
              /\ specials = g.specials
              /\ currentPlayerId = Len(opening) % 2
              \* the bonus slot the previous turn left behind
              /\ IF opening # <<>> /\ ownsAnyMagicWell(PlayerOf(g, mover))
                 THEN /\ magicWellBonusTarget \in PlayerOf(g, mover).positions
                      /\ magicWellBonusActiveForPlayerId = OtherId(mover)
                 ELSE /\ magicWellBonusTarget = NullCoordStr
                      /\ magicWellBonusActiveForPlayerId = NullId
    /\ isGameOver = FALSE
    /\ lastAIMoveResult = NullMove
    /\ pc = "turnStart"
    /\ attempts = 0
    /\ parsedResponse = NullMove
    /\ aiMove = NullMove
    /\ requests = 0
    /\ replyKinds = {}
    /\ usedFallback = FALSE
    /\ lastResult = NoResult
    /\ turns = 0
    /\ potentialCoords = <<>>
    /\ specialsPlaced = 0

isAITurn == gameMode = "PvE" /\ currentPlayerId = AI_PLAYER_ID

\* StartTurn without the reset of the Magic Well bonus.
StartTurn_NoReset ==
    /\ pc = "turnStart"
    /\ ~isGameOver
    /\ turns < MaxTurns
    /\ turns' = turns + 1
    /\ lastResult' = NoResult
    /\ attempts' = 0
    /\ parsedResponse' = NullMove
    /\ aiMove' = NullMove
    /\ requests' = 0
    /\ replyKinds' = {}
    /\ usedFallback' = FALSE
    /\ IF isAITurn
       THEN /\ pc' = "aiLoop"
            /\ lastAIMoveResult' = NullMove
       ELSE /\ pc' = "human"
            /\ UNCHANGED lastAIMoveResult
    /\ UNCHANGED <<grid, players, specials, currentPlayerId, isGameOver, gameMode,
                   magicWellBonusTarget, magicWellBonusActiveForPlayerId>>
    /\ UNCHANGED SetupLocals

\* executePlayerTurn up to the first prompt or request: the bonus of the
\* previous turn is cleared; executeAITurn and decideMove set up their locals.
StartTurn ==
    /\ pc = "turnStart"
    /\ ~isGameOver
    /\ turns < MaxTurns
    /\ turns' = turns + 1
    /\ magicWellBonusTarget' = NullCoordStr
    /\ magicWellBonusActiveForPlayerId' = NullId
    /\ lastResult' = NoResult
    /\ attempts' = 0
    /\ parsedResponse' = NullMove
    /\ aiMove' = NullMove
    /\ requests' = 0
    /\ replyKinds' = {}
    /\ usedFallback' = FALSE
    /\ IF isAITurn
       THEN /\ pc' = "aiLoop"
            /\ lastAIMoveResult' = NullMove
       ELSE /\ pc' = "human"
            /\ UNCHANGED lastAIMoveResult
    /\ UNCHANGED <<grid, players, specials, currentPlayerId, isGameOver, gameMode>>
    /\ UNCHANGED SetupLocals

\* The end of a turn without switchPlayer.
FinishTurn_NoSwitch(g) ==
    /\ isGameOver' = (checkWinner(g.players) # NullId)
    /\ currentPlayerId' = currentPlayerId
    /\ pc' = IF checkWinner(g.players) # NullId THEN "gameOver" ELSE "turnStart"

\* The end of a turn that looks for a winner on the board as it was before
\* the turn's action.
FinishTurn_StaleBoard(g) ==
    /\ isGameOver' = (checkWinner(players) # NullId)
    /\ currentPlayerId' = IF checkWinner(players) # NullId THEN currentPlayerId
                          ELSE OtherId(currentPlayerId)
    /\ pc' = IF checkWinner(players) # NullId THEN "gameOver" ELSE "turnStart"

\* The end of a turn in startGame: checkGameOver, then switchPlayer unless
\* the game is over.  g is the game after the turn's action.
FinishTurn(g) ==
    LET winnerId == checkWinner(g.players)
    IN  /\ isGameOver' = (winnerId # NullId)
        /\ currentPlayerId' = IF winnerId # NullId THEN currentPlayerId
                              ELSE OtherId(currentPlayerId)
        /\ pc' = IF winnerId # NullId THEN "gameOver" ELSE "turnStart"

SetGame(g) ==
    /\ grid' = g.grid
    /\ players' = g.players
    /\ specials' = g.specials

AILocals == <<attempts, parsedResponse, aiMove, requests, replyKinds, usedFallback>>

\* executeHumanTurn: one pass of its loop.  promptPlayerMove asks again (and
\* nothing reaches the executor) unless the text is an action letter and a
\* coordinate of the board; a rejected action asks again; after a processed
\* action the owner of a Magic Well is asked for the bonus target, anyone
\* else ends the turn.
HumanMove ==
    /\ pc = "human"
    /\ \E input \in HumanInputs :
          LET action == actionMap(input[1])
              coord == parseCoordinateInput(input[2])
          IN  IF action = Null \/ coord = NullCoord
              THEN UNCHANGED <<grid, players, specials, currentPlayerId, isGameOver,
                               pc, magicWellBonusTarget, magicWellBonusActiveForPlayerId,
                               lastResult>>
              ELSE \E attackBase \in DiceFor(Game, currentPlayerId, action, coord),
                      defenseBase \in DiceFor(Game, currentPlayerId, action, coord) :
                      LET res == processPlayerAction(Game, currentPlayerId, action, coord,
                                     magicWellBonusTarget, magicWellBonusActiveForPlayerId,
                                     attackBase, defenseBase)
                      IN  /\ lastResult' = ResultOf(res, Game, currentPlayerId, action, coord)
                          /\ SetGame(res.g)
                          /\ UNCHANGED <<magicWellBonusTarget,
                                         magicWellBonusActiveForPlayerId>>
                          /\ IF ~res.ok
                             THEN UNCHANGED <<pc, currentPlayerId, isGameOver>>
                             ELSE IF ownsAnyMagicWell(PlayerOf(res.g, currentPlayerId))
                                     /\ getValidMagicWellTargets(
                                            PlayerOf(res.g, currentPlayerId)) # {}
                             THEN /\ pc' = "wellPrompt"
                                  /\ UNCHANGED <<currentPlayerId, isGameOver>>
                             ELSE FinishTurn(res.g)
    /\ UNCHANGED <<gameMode, lastAIMoveResult, AILocals, turns>>
    /\ UNCHANGED SetupLocals

\* promptMagicWellTarget: one pass of its loop; a text that is no coordinate
\* of the board or names a cell the player does not own asks again.
HumanWellTarget ==
    /\ pc = "wellPrompt"
    /\ \E token \in Tokens :
          LET coord == parseCoordinateInput(token)
          IN  IF coord = NullCoord
                 \/ ~ownsPosition(PlayerOf(Game, currentPlayerId), toCoordinateString(coord))
              THEN UNCHANGED <<pc, currentPlayerId, isGameOver, magicWellBonusTarget,
                               magicWellBonusActiveForPlayerId>>
              ELSE /\ magicWellBonusTarget' = toCoordinateString(coord)
                   /\ magicWellBonusActiveForPlayerId' = OtherId(currentPlayerId)
                   /\ FinishTurn(Game)
    /\ UNCHANGED <<grid, players, specials, gameMode, lastAIMoveResult, AILocals,
                   lastResult, turns>>
    /\ UNCHANGED SetupLocals

\* The kind of a reply, by the grammar of the reply and the rules of the
\* game (not by decideMove's own checks): no text at all, a text that is not
\* "ACTION: COORDINATE" with a coordinate of the board, a well-formed
\* suggestion the executor would reject, or one it would accept.
ReplyKind(g, aiId, reply) ==
    IF ~reply.text THEN "transport"
    ELSE IF \/ reply.keyword \notin {"CONQUER", "FORTIFY", "ATTACK"}
            \/ reply.token \notin {formatCoordForUser(c) : c \in AllCoords}
    THEN "malformed"
    ELSE IF processPlayerAction(g, aiId, reply.keyword,
                                [row |-> reply.token.letter, col |-> reply.token.num - 1],
                                NullCoordStr, NullId, MIN_DICE_ROLL, MIN_DICE_ROLL).ok
    THEN "legal"
    ELSE "illegal"

\* decideMove: one iteration of the retry loop, from the request to
\* attempts++.  The loop runs while attempts <= AI_MAX_RETRIES and no
\* response has been accepted.
AIRequest ==
    /\ pc = "aiLoop"
    /\ attempts <= AI_MAX_RETRIES /\ parsedResponse = NullMove
    /\ \E reply \in Replies :
          /\ parsedResponse' = DecideAttempt(Game, currentPlayerId, reply)
          /\ replyKinds' = replyKinds \cup {ReplyKind(Game, currentPlayerId, reply)}
    /\ requests' = requests + 1
    /\ attempts' = attempts + 1
    /\ pc' = IF attempts' <= AI_MAX_RETRIES /\ parsedResponse' = NullMove
             THEN "aiLoop" ELSE "aiAfterLoop"
    /\ UNCHANGED <<grid, players, specials, currentPlayerId, isGameOver, gameMode,
                   magicWellBonusTarget, magicWellBonusActiveForPlayerId,
                   lastAIMoveResult, aiMove, usedFallback, lastResult, turns>>
    /\ UNCHANGED SetupLocals

\* decideMove after the loop that stores the Magic Well target it chose in
\* the bonus slot of the controller.
AIDecide_SetsBonus ==
    /\ pc = "aiAfterLoop"
    /\ IF parsedResponse = NullMove
       THEN /\ usedFallback' = TRUE
            /\ IF FallbackMoves(Game, currentPlayerId) = {}
               THEN aiMove' = NullMove
               ELSE \E fallbackMove \in FallbackMoves(Game, currentPlayerId) :
                       aiMove' \in FinalizedMoves(Game, currentPlayerId, fallbackMove)
       ELSE /\ usedFallback' = FALSE
            /\ aiMove' \in FinalizedMoves(Game, currentPlayerId, parsedResponse)
    /\ magicWellBonusTarget' = toCoordinateString(aiMove'.magicWellTargetCoord)
    /\ pc' = "aiDecided"
    /\ UNCHANGED <<grid, players, specials, currentPlayerId, isGameOver, gameMode,
                   magicWellBonusActiveForPlayerId,
                   lastAIMoveResult, attempts, parsedResponse, requests, replyKinds,
                   lastResult, turns>>
    /\ UNCHANGED SetupLocals

\* decideMove after the loop: the fallback draw when no response was
\* accepted, the Magic Well target when none was given, and the return.
AIDecide ==
    /\ pc = "aiAfterLoop"
    /\ IF parsedResponse = NullMove
       THEN /\ usedFallback' = TRUE
            /\ IF FallbackMoves(Game, currentPlayerId) = {}
               THEN aiMove' = NullMove
               ELSE \E fallbackMove \in FallbackMoves(Game, currentPlayerId) :
                       aiMove' \in FinalizedMoves(Game, currentPlayerId, fallbackMove)
       ELSE /\ usedFallback' = FALSE
            /\ aiMove' \in FinalizedMoves(Game, currentPlayerId, parsedResponse)
    /\ pc' = "aiDecided"
    /\ UNCHANGED <<grid, players, specials, currentPlayerId, isGameOver, gameMode,
                   magicWellBonusTarget, magicWellBonusActiveForPlayerId,
                   lastAIMoveResult, attempts, parsedResponse, requests, replyKinds,
                   lastResult, turns>>
    /\ UNCHANGED SetupLocals

\* executeAITurn after decideMove has returned, and the rest of
\* executePlayerTurn: no move skips the turn; a move goes to the executor,
\* and after a processed action the owner of a Magic Well gets the bonus on
\* the target the move carries.
AIExecute ==
    /\ pc = "aiDecided"
    /\ IF aiMove = NullMove
       THEN /\ lastResult' = [NoResult EXCEPT !.outcome = "skipped",
                                              !.playerId = currentPlayerId]
            /\ FinishTurn(Game)
            /\ UNCHANGED <<grid, players, specials, lastAIMoveResult,
                           magicWellBonusTarget, magicWellBonusActiveForPlayerId>>
       ELSE \E attackBase \in DiceFor(Game, currentPlayerId, aiMove.action, aiMove.coord),
               defenseBase \in DiceFor(Game, currentPlayerId, aiMove.action, aiMove.coord) :
               LET res == processPlayerAction(Game, currentPlayerId, aiMove.action,
                              aiMove.coord, magicWellBonusTarget,
                              magicWellBonusActiveForPlayerId, attackBase, defenseBase)
                   setsBonus == /\ res.ok
                                /\ ownsAnyMagicWell(PlayerOf(res.g, currentPlayerId))
                                /\ aiMove.magicWellTargetCoord # NullCoord
               IN  /\ lastAIMoveResult' = aiMove
                   /\ lastResult' = ResultOf(res, Game, currentPlayerId, aiMove.action,
                                             aiMove.coord)
                   /\ SetGame(res.g)
                   /\ magicWellBonusTarget' =
                         IF setsBonus THEN toCoordinateString(aiMove.magicWellTargetCoord)
                         ELSE magicWellBonusTarget
                   /\ magicWellBonusActiveForPlayerId' =
                         IF setsBonus THEN OtherId(currentPlayerId)
                         ELSE magicWellBonusActiveForPlayerId
                   /\ FinishTurn(res.g)
    /\ UNCHANGED <<gameMode, AILocals, turns>>
    /\ UNCHANGED SetupLocals

Next ==
    \/ StartTurn
    \/ HumanMove
    \/ HumanWellTarget
    \/ AIRequest
    \/ AIDecide
    \/ AIExecute

Spec == Init /\ [][Next]_vars

(***************************************************************************)
(* setupInitialState as a process of its own, from the state the           *)
(* constructor leaves: the two seeds, then the placement loop with one     *)
(* draw of randomInt per step.                                             *)
(***************************************************************************)
maxPlacementAttempts == GRID_SIZE * GRID_SIZE * 2

\* potentialCoords as the two nested loops fill it: row by row.
AllPotentialCoords ==
    [i \in 1 .. GRID_SIZE * GRID_SIZE |->
        [row |-> (i - 1) \div GRID_SIZE, col |-> (i - 1) % GRID_SIZE]]

\* potentialCoords after splice(randIndex, 1); randIndex counts from 0.
Splice(list, randIndex) ==
    [i \in 1 .. Len(list) - 1 |-> IF i <= randIndex THEN list[i] ELSE list[i + 1]]

SetupInit ==
    /\ grid = NewGrid
    /\ players = <<NewPlayer(0), NewPlayer(1)>>
    /\ specials = <<>>
    /\ currentPlayerId = 0
    /\ isGameOver = FALSE
    /\ gameMode \in {"PvP", "PvE"}
    /\ magicWellBonusTarget = NullCoordStr
    /\ magicWellBonusActiveForPlayerId = NullId
    /\ lastAIMoveResult = NullMove
    /\ pc = "setup"
    /\ attempts = 0
    /\ parsedResponse = NullMove
    /\ aiMove = NullMove
    /\ requests = 0
    /\ replyKinds = {}
    /\ usedFallback = FALSE
    /\ lastResult = NoResult
    /\ turns = 0
    /\ potentialCoords = <<>>
    /\ specialsPlaced = 0

SetupFrame ==
    UNCHANGED <<currentPlayerId, isGameOver, gameMode, magicWellBonusTarget,
                magicWellBonusActiveForPlayerId, lastAIMoveResult, parsedResponse,
                aiMove, requests, replyKinds, usedFallback, lastResult, turns>>

\* The two claimCell calls and the locals of the placement.
SetupSeed ==
    /\ pc = "setup"
    /\ SetGame(SeededGame)
    /\ specialsPlaced' = 0
    /\ attempts' = 0
    /\ potentialCoords' = AllPotentialCoords
    /\ pc' = "setupLoop"
    /\ SetupFrame

\* One pass of the placement loop that puts a special on any cell drawn.
SetupPlace_NoEmptyCheck ==
    /\ pc = "setupLoop"
    /\ specialsPlaced < INITIAL_SPECIAL_CELLS
    /\ attempts < maxPlacementAttempts
    /\ Len(potentialCoords) > 0
    /\ \E randIndex \in 0 .. Len(potentialCoords) - 1 :
          /\ potentialCoords' = Splice(potentialCoords, randIndex)
          /\ specials' = SetSpecial(specials,
                                    toCoordinateString(potentialCoords[randIndex + 1]),
                                    SPECIAL_TYPES[(specialsPlaced % Len(SPECIAL_TYPES)) + 1])
          /\ specialsPlaced' = specialsPlaced + 1
    /\ attempts' = attempts + 1
    /\ UNCHANGED <<grid, players, pc>>
    /\ SetupFrame

\* One pass of the placement loop.
SetupPlace ==
    /\ pc = "setupLoop"
    /\ specialsPlaced < INITIAL_SPECIAL_CELLS
    /\ attempts < maxPlacementAttempts
    /\ Len(potentialCoords) > 0
    /\ \E randIndex \in 0 .. Len(potentialCoords) - 1 :
          LET coord == potentialCoords[randIndex + 1]
              coordStr == toCoordinateString(coord)
          IN  /\ potentialCoords' = Splice(potentialCoords, randIndex)
              /\ IF getCell(grid, coord) = EmptyCell /\ SpecialAt(specials, coordStr) = Null
                 THEN /\ specials' = SetSpecial(specials, coordStr,
                                         SPECIAL_TYPES[(specialsPlaced % Len(SPECIAL_TYPES)) + 1])
                      /\ specialsPlaced' = specialsPlaced + 1
                 ELSE UNCHANGED <<specials, specialsPlaced>>
    /\ attempts' = attempts + 1
    /\ UNCHANGED <<grid, players, pc>>
    /\ SetupFrame

\* The loop condition fails: the warning, if any, and the return.
SetupFinish ==
    /\ pc = "setupLoop"
    /\ ~(/\ specialsPlaced < INITIAL_SPECIAL_CELLS
         /\ attempts < maxPlacementAttempts
         /\ Len(potentialCoords) > 0)
    /\ pc' = "setupDone"
    /\ UNCHANGED <<grid, players, specials, attempts, potentialCoords, specialsPlaced>>
    /\ SetupFrame

SetupNext == SetupSeed \/ SetupPlace \/ SetupFinish

\* The loop is straight-line code: it keeps running until it returns.
SetupSpec == SetupInit /\ [][SetupNext]_vars /\ WF_vars(SetupNext)

(***************************************************************************)
(* The rules of the game as the specification states them, for the         *)
(* properties below.                                                       *)
(***************************************************************************)
Actions == {"CONQUER", "FORTIFY", "ATTACK"}

\* The coordinates of the board and those one step off each edge.
NearCoords == [row : -1 .. GRID_SIZE, col : -1 .. GRID_SIZE]

InBounds(coord) == coord.row \in Rows /\ coord.col \in Rows

\* Some cell of player id is at Manhattan distance exactly 1 from coord.
OrthogonallyAdjacent(g, id, coord) ==
    \E pos \in PlayerOf(g, id).positions :
        \/ pos[1] = coord.row /\ pos[2] \in {coord.col - 1, coord.col + 1}
        \/ pos[2] = coord.col /\ pos[1] \in {coord.row - 1, coord.row + 1}

LegalExpand(g, id, coord) ==
    /\ InBounds(coord)
    /\ g.grid[coord.row][coord.col] = EmptyCell
    /\ OrthogonallyAdjacent(g, id, coord)

LegalFortify(g, id, coord) ==
    /\ InBounds(coord)
    /\ <<coord.row, coord.col>> \in PlayerOf(g, id).positions
    /\ ~(<<coord.row, coord.col>> \in DOMAIN g.specials
         /\ g.specials[<<coord.row, coord.col>>] = Shield)

LegalAttack(g, id, coord) ==
    /\ InBounds(coord)
    /\ <<coord.row, coord.col>> \in PlayerOf(g, OtherId(id)).positions
    /\ OrthogonallyAdjacent(g, id, coord)

Legal(g, id, action, coord) ==
    \/ action = "CONQUER" /\ LegalExpand(g, id, coord)
    \/ action = "FORTIFY" /\ LegalFortify(g, id, coord)
    \/ action = "ATTACK" /\ LegalAttack(g, id, coord)

\* processPlayerAction returns true for the action (whatever the dice).
ExecutorAccepts(g, id, action, coord) ==
    processPlayerAction(g, id, action, coord, NullCoordStr, NullId,
                        MIN_DICE_ROLL, MIN_DICE_ROLL).ok

\* The executor accepts no action at all of player id.
NoAcceptedAction(g, id) ==
    \A action \in Actions, coord \in AllCoords : ~ExecutorAccepts(g, id, action, coord)

\* The [action, coord] part of an AIMove.
MainMove(move) == [action |-> move.action, coord |-> move.coord]

(***************************************************************************)
(* C1: every non-null move decideMove returns is accepted by the executor  *)
(* on the unchanged state (processPlayerAction returns true), whatever the *)
(* replies were; executeAITurn never sees an AI action rejected.           *)
(***************************************************************************)
C1_DecidedMoveAccepted ==
    /\ (pc = "aiDecided" /\ aiMove # NullMove)
          => ExecutorAccepts(Game, currentPlayerId, aiMove.action, aiMove.coord)
    /\ lastResult.outcome = "rejected"
          => ~(gameMode = "PvE" /\ lastResult.playerId = AI_PLAYER_ID)

\* decideMove has returned a fallback move after a transport failure, a
\* malformed reply and an illegal suggestion.
C1_Witness ==
    /\ pc = "aiDecided" /\ aiMove # NullMove /\ usedFallback
    /\ replyKinds = {"transport", "malformed", "illegal"}

(***************************************************************************)
(* C2 (as claimed): decideMove returns null only if the executor would     *)
(* accept no action of the acting side.                                    *)
(***************************************************************************)
C2_NullOnlyWithoutLegalMove ==
    (pc = "aiDecided" /\ aiMove = NullMove) => NoAcceptedAction(Game, currentPlayerId)

(***************************************************************************)
(* C3: one decideMove call issues at most 3 requests; every request,       *)
(* whatever its reply (no text, malformed, illegal), consumes exactly one  *)
(* attempt; once a suggestion has passed validation no request follows;    *)
(* the fallback is drawn only after 3 failed attempts.                     *)
(***************************************************************************)
C3_RetryBudget ==
    /\ requests <= 3
    /\ attempts = requests
    /\ Cardinality(replyKinds) <= requests
    /\ "legal" \in replyKinds => (parsedResponse # NullMove /\ pc # "aiLoop")
    /\ parsedResponse # NullMove => pc # "aiLoop"
    /\ pc = "aiLoop" => (requests < 3 /\ "legal" \notin replyKinds)
    /\ usedFallback => (requests = 3 /\ "legal" \notin replyKinds)

\* The fallback has been drawn after three requests that failed in the three
\* different ways.
C3_Witness ==
    /\ usedFallback /\ requests = 3
    /\ replyKinds = {"transport", "malformed", "illegal"}

(***************************************************************************)
(* C4: when every reply is well-formed but illegal, decideMove stops after *)
(* 3 requests and, if getValidMoves is not empty, returns one of its moves,*)
(* which the executor accepts (so none of the illegal suggestions).        *)
(***************************************************************************)
C4_IllegalRepliesFallBack ==
    /\ (pc = "aiLoop" /\ replyKinds = {"illegal"}) => requests < 3
    /\ (pc \in {"aiAfterLoop", "aiDecided"} /\ replyKinds = {"illegal"}) => requests = 3
    /\ (pc = "aiDecided" /\ replyKinds = {"illegal"}) =>
          LET validMoves == getValidMoves(PlayerOf(Game, currentPlayerId),
                                          PlayerOf(Game, OtherId(currentPlayerId)),
                                          grid, specials)
          IN  /\ usedFallback
              /\ validMoves # {} =>
                    /\ aiMove # NullMove
                    /\ MainMove(aiMove) \in validMoves
                    /\ ExecutorAccepts(Game, currentPlayerId, aiMove.action, aiMove.coord)

\* decideMove has returned a move after three illegal suggestions.
C4_Witness ==
    /\ pc = "aiDecided" /\ replyKinds = {"illegal"} /\ requests = 3
    /\ aiMove # NullMove

(***************************************************************************)
(* C5: an AI side with no legal move gets null from decideMove (every      *)
(* suggestion is turned down, the fallback finds nothing), and the turn is *)
(* skipped: board, ledgers and overlay unchanged, no bonus set, the        *)
(* opponent is to move.                                                    *)
(***************************************************************************)
C5_Step ==
    /\ (pc = "aiLoop" /\ NoAcceptedAction(Game, currentPlayerId))
          => parsedResponse' = NullMove
    /\ (pc = "aiAfterLoop" /\ NoAcceptedAction(Game, currentPlayerId))
          => aiMove' = NullMove
    /\ (pc = "aiDecided" /\ aiMove = NullMove /\ NoAcceptedAction(Game, currentPlayerId))
          => \/ UNCHANGED vars
             \/ /\ UNCHANGED <<grid, players, specials>>
                /\ magicWellBonusTarget' = NullCoordStr
                /\ magicWellBonusActiveForPlayerId' = NullId
                /\ lastResult'.outcome = "skipped"
                /\ ~isGameOver'
                /\ currentPlayerId' = OtherId(currentPlayerId)
                /\ pc' = "turnStart"

C5_NoMoveSkipsTurn == [][C5_Step]_vars

\* The turn of an AI side that owns no cell has been skipped.
C5_Witness ==
    /\ lastResult.outcome = "skipped"
    /\ PlayerOf(Game, AI_PLAYER_ID).positions = {}
    /\ pc = "turnStart" /\ currentPlayerId = OtherId(AI_PLAYER_ID)

(***************************************************************************)
(* C6 (as claimed): the game never stalls; while the game is not over the  *)
(* human side asked for its move has an action the executor accepts.       *)
(***************************************************************************)
C6_SideToMoveCanAct ==
    (pc = "human" /\ ~isGameOver) =>
        \E action \in Actions, coord \in AllCoords :
            ExecutorAccepts(Game, currentPlayerId, action, coord)

(***************************************************************************)
(* C7: an illegal action is rejected and mutates nothing: at the move      *)
(* prompt of a human, only a legal action is processed, and every other    *)
(* input leaves marks, ledgers, overlay and bonus slot unchanged, the same *)
(* player to move and the prompt open.                                     *)
(***************************************************************************)
C7_Step ==
    pc = "human" =>
        /\ lastResult'.outcome = "processed"
              => /\ lastResult'.playerId = currentPlayerId
                 /\ Legal(Game, currentPlayerId, lastResult'.action, lastResult'.coord)
        /\ lastResult'.outcome # "processed"
              => UNCHANGED <<grid, players, specials, magicWellBonusTarget,
                             magicWellBonusActiveForPlayerId, currentPlayerId,
                             isGameOver, pc>>

\* Where an action is solicited, the executor turns down every illegal one,
\* coordinates just outside the board included, and returns the game as it was
\* (with the dice set for the attacker to win).
C7_Rejects ==
    pc \in {"human", "aiDecided"} =>
        \A action \in Actions, coord \in NearCoords :
            ~Legal(Game, currentPlayerId, action, coord) =>
                LET res == processPlayerAction(Game, currentPlayerId, action, coord,
                                               magicWellBonusTarget,
                                               magicWellBonusActiveForPlayerId,
                                               MAX_DICE_ROLL, MIN_DICE_ROLL)
                IN  ~res.ok /\ res.g = Game

C7_IllegalActionRejected == []C7_Rejects /\ [][C7_Step]_vars

\* A human has had an action rejected and is asked again.
C7_Witness == pc = "human" /\ lastResult.outcome = "rejected"

(***************************************************************************)
(* C8: every coordinate of a side's Power Source set and Magic Well set is *)
(* one of the side's owned coordinates (so a coordinate that leaves the    *)
(* owned set leaves both sets).                                            *)
(***************************************************************************)
C8_SubsetsAreOwned ==
    \A id \in PlayerId :
        /\ PlayerOf(Game, id).ownedPowerSources \subseteq PlayerOf(Game, id).positions
        /\ PlayerOf(Game, id).ownedMagicWells \subseteq PlayerOf(Game, id).positions

\* A cell that was in its owner's Power Source set has been lost to an attack.
C8_Witness ==
    /\ lastResult.outcome = "processed" /\ lastResult.action = "ATTACK"
    /\ lastResult.attackSuccessful /\ lastResult.targetPower

(***************************************************************************)
(* C9: an Attack is accepted iff its target is on the board, owned by the  *)
(* opponent and orthogonally adjacent to a cell of the attacker; the       *)
(* attacker of an accepted Attack takes the cell iff its roll is strictly  *)
(* greater than the defense roll, and the defender keeps it otherwise.     *)
(***************************************************************************)
C9_AttackRule ==
    /\ \A id \in PlayerId, coord \in NearCoords :
          ExecutorAccepts(Game, id, "ATTACK", coord) <=> LegalAttack(Game, id, coord)
    /\ (lastResult.outcome = "processed" /\ lastResult.action = "ATTACK") =>
          LET target == toCoordinateString(lastResult.coord)
              attacker == PlayerOf(Game, lastResult.playerId)
              defender == PlayerOf(Game, OtherId(lastResult.playerId))
              wins == lastResult.attackRoll > lastResult.defenseRoll
          IN  /\ wins <=> target \in attacker.positions
              /\ ~wins <=> target \in defender.positions
              /\ wins <=> lastResult.attackSuccessful

\* Equal rolls: the defender has kept the cell.
C9_Witness ==
    /\ lastResult.outcome = "processed" /\ lastResult.action = "ATTACK"
    /\ lastResult.attackRoll = lastResult.defenseRoll
    /\ toCoordinateString(lastResult.coord)
          \in PlayerOf(Game, OtherId(lastResult.playerId)).positions

(***************************************************************************)
(* C10: after a successful Attack the target is not in the defender's      *)
(* owned set, it is in the attacker's, its mark is the attacker's, and a   *)
(* Shield that was on it is gone.                                          *)
(***************************************************************************)
C10_Capture ==
    (lastResult.outcome = "processed" /\ lastResult.action = "ATTACK"
     /\ lastResult.attackSuccessful) =>
        LET target == toCoordinateString(lastResult.coord)
            attacker == PlayerOf(Game, lastResult.playerId)
            defender == PlayerOf(Game, OtherId(lastResult.playerId))
        IN  /\ target \notin defender.positions
            /\ target \in attacker.positions
            /\ grid[lastResult.coord.row][lastResult.coord.col] = attacker.mark
            /\ lastResult.targetSpecial = Shield
                  => ~(target \in DOMAIN specials /\ specials[target] = Shield)

\* A shielded cell has been captured.
C10_Witness ==
    /\ lastResult.outcome = "processed" /\ lastResult.action = "ATTACK"
    /\ lastResult.attackSuccessful /\ lastResult.targetSpecial = Shield

(***************************************************************************)
(* C11 (as claimed): after a successful Attack on a cell that was in the   *)
(* defender's Power Source (resp. Magic Well) set, the cell is in the      *)
(* attacker's corresponding set and not in the defender's.                 *)
(***************************************************************************)
C11_CapturedItemTransferred ==
    (lastResult.outcome = "processed" /\ lastResult.action = "ATTACK"
     /\ lastResult.attackSuccessful) =>
        LET target == toCoordinateString(lastResult.coord)
            attacker == PlayerOf(Game, lastResult.playerId)
            defender == PlayerOf(Game, OtherId(lastResult.playerId))
        IN  /\ lastResult.targetPower
                  => /\ target \in attacker.ownedPowerSources
                     /\ target \notin defender.ownedPowerSources
            /\ lastResult.targetMagic
                  => /\ target \in attacker.ownedMagicWells
                     /\ target \notin defender.ownedMagicWells

(***************************************************************************)
(* C12: a failed Attack leaves marks, owned sets, Power Source and Magic   *)
(* Well sets and the overlay unchanged, and it is processed: the side is   *)
(* not asked again, its turn goes on to its end (the bonus prompt of a     *)
(* human that owns a Magic Well, then the opponent's turn).                *)
(***************************************************************************)
C12_Step ==
    (lastResult' # lastResult /\ lastResult'.action = "ATTACK"
     /\ lastResult'.attackRoll <= lastResult'.defenseRoll) =>
        /\ lastResult'.outcome = "processed"
        /\ ~lastResult'.attackSuccessful
        /\ UNCHANGED <<grid, players, specials>>
        /\ ~isGameOver'
        /\ \/ pc' = "turnStart" /\ currentPlayerId' = OtherId(currentPlayerId)
           \/ /\ pc = "human" /\ pc' = "wellPrompt"
              /\ ownsAnyMagicWell(PlayerOf(Game, currentPlayerId))
              /\ UNCHANGED currentPlayerId

C12_FailedAttackProcessed == [][C12_Step]_vars

\* An attack has failed and the opponent is to move.
C12_Witness ==
    /\ lastResult.outcome = "processed" /\ lastResult.action = "ATTACK"
    /\ ~lastResult.attackSuccessful
    /\ pc = "turnStart" /\ currentPlayerId = OtherId(lastResult.playerId)

C14_WitnessShield ==
    /\ lastResult.outcome = "processed" /\ lastResult.action = "CONQUER"
    /\ lastResult.targetSpecial = Shield

(***************************************************************************)
(* C15 (as claimed): a Conquer of an empty cell that carries a Power       *)
(* Source or a Magic Well is rejected by the executor: no Conquer of such  *)
(* a cell is ever processed.                                               *)
(***************************************************************************)
C15_ConquerOfItemRejected ==
    (lastResult.outcome = "processed" /\ lastResult.action = "CONQUER")
        => lastResult.targetSpecial \notin {PowerSource, MagicWell}

(***************************************************************************)
(* C16: a Fortify is accepted iff its target is on the board, owned by the *)
(* acting side and without a Shield; then a Shield is on the target, and   *)
(* all marks and both owned sets are as before.                            *)
(***************************************************************************)
C16_FortifyRule ==
    /\ \A id \in PlayerId, coord \in NearCoords :
          LET res == validateAndExecuteFortify(Game, id, coord)
          IN  /\ res.ok <=> LegalFortify(Game, id, coord)
              /\ res.ok =>
                    /\ SpecialAt(res.g.specials, toCoordinateString(coord)) = Shield
                    /\ res.g.grid = grid
                    /\ \A p \in PlayerId :
                          PlayerOf(res.g, p).positions = PlayerOf(Game, p).positions
    /\ (lastResult.outcome = "processed" /\ lastResult.action = "FORTIFY") =>
          /\ lastResult.targetSpecial # Shield
          /\ SpecialAt(specials, toCoordinateString(lastResult.coord)) = Shield
          /\ ownsPosition(PlayerOf(Game, lastResult.playerId),
                          toCoordinateString(lastResult.coord))

C16_Step ==
    (lastResult' # lastResult /\ lastResult'.outcome = "processed"
     /\ lastResult'.action = "FORTIFY") =>
        /\ grid' = grid
        /\ \A p \in PlayerId : players'[p + 1].positions = players[p + 1].positions

C16_Fortify == []C16_FortifyRule /\ [][C16_Step]_vars

\* A cell has been fortified.
C16_Witness ==
    /\ lastResult.outcome = "processed" /\ lastResult.action = "FORTIFY"
    /\ SpecialAt(specials, toCoordinateString(lastResult.coord)) = Shield

(***************************************************************************)
(* C17 (as claimed): after a successful Fortify of a cell that was in the  *)
(* acting side's Power Source or Magic Well set, the cell is no longer in  *)
(* that set, and it carries a Shield.                                      *)
(***************************************************************************)
C17_FortifyDestroysItem ==
    (lastResult.outcome = "processed" /\ lastResult.action = "FORTIFY") =>
        LET target == toCoordinateString(lastResult.coord)
            player == PlayerOf(Game, lastResult.playerId)
        IN  /\ lastResult.targetPower => target \notin player.ownedPowerSources
            /\ lastResult.targetMagic => target \notin player.ownedMagicWells
            /\ (lastResult.targetPower \/ lastResult.targetMagic)
                  => SpecialAt(specials, target) = Shield

\* The defense roll of the recorded attack without any Magic Well bonus.
PlainDefenseRoll ==
    lastResult.defenseBase
        + (IF lastResult.targetSpecial = Shield THEN SHIELD_DEFENSE_MODIFIER ELSE 0)

(***************************************************************************)
(* C18 (as claimed): when the AI side, owner of a Magic Well, has          *)
(* nominated its cell c at the end of its turn, an Attack of the human on  *)
(* c in the turn that follows has the Magic Well bonus in its defense      *)
(* roll.                                                                   *)
(***************************************************************************)
C18_NominatedCellDefended ==
    (/\ gameMode = "PvE"
     /\ lastResult.outcome = "processed" /\ lastResult.action = "ATTACK"
     /\ lastResult.playerId = OtherId(AI_PLAYER_ID)
     /\ lastAIMoveResult # NullMove
     /\ lastAIMoveResult.magicWellTargetCoord = lastResult.coord
     /\ (ownsAnyMagicWell(PlayerOf(Game, AI_PLAYER_ID)) \/ lastResult.targetMagic))
        => lastResult.defenseRoll = PlainDefenseRoll + MAGIC_WELL_DEFENSE_BONUS

(***************************************************************************)
(* C19: the bonus slot (target and beneficiary) is cleared at the start of *)
(* every turn, consumed or not: it is empty from the start of a turn until *)
(* the turn's nomination, so that no defense roll of the turn has a bonus  *)
(* nominated in an earlier turn.                                           *)
(***************************************************************************)
C19_SlotClearedEachTurn ==
    /\ pc \in {"human", "wellPrompt", "aiLoop", "aiAfterLoop", "aiDecided"}
          => /\ magicWellBonusTarget = NullCoordStr
             /\ magicWellBonusActiveForPlayerId = NullId
    /\ (lastResult.outcome = "processed" /\ lastResult.action = "ATTACK")
          => lastResult.defenseRoll = PlainDefenseRoll

\* The AI nominated a cell at the end of its turn; the human's turn has
\* started and the slot is empty again.
C19_Witness ==
    /\ gameMode = "PvE" /\ pc = "human"
    /\ lastAIMoveResult # NullMove
    /\ lastAIMoveResult.magicWellTargetCoord # NullCoord
    /\ magicWellBonusTarget = NullCoordStr

(***************************************************************************)
(* C20 (as claimed): when the AI side has completed a processed action and *)
(* owns a Magic Well at the end of its turn, the bonus slot holds a        *)
(* coordinate the AI side owns.                                            *)
(***************************************************************************)
C20_BonusNeverDropped ==
    (/\ gameMode = "PvE"
     /\ pc \in {"turnStart", "gameOver"}
     /\ lastResult.outcome = "processed" /\ lastResult.playerId = AI_PLAYER_ID
     /\ ownsAnyMagicWell(PlayerOf(Game, AI_PLAYER_ID)))
        => magicWellBonusTarget \in PlayerOf(Game, AI_PLAYER_ID).positions

(***************************************************************************)
(* C21: on every reachable board getValidMoves(side, opponent) returns     *)
(* exactly the Fortify moves on the side's unshielded cells, the Expand    *)
(* moves on every Empty in-bounds orthogonal neighbour of an owned cell    *)
(* (whatever the overlay holds there) and the Attack moves on every such   *)
(* neighbour owned by the opponent.                                        *)
(***************************************************************************)
C21_ValidMovesAreTheLegalMoves ==
    \A id \in PlayerId :
        getValidMoves(PlayerOf(Game, id), PlayerOf(Game, OtherId(id)), grid, specials)
            = {m \in [action : Actions, coord : AllCoords] :
                    Legal(Game, id, m.action, m.coord)}

(***************************************************************************)
(* C22: the array getValidMoves returns never holds two entries with the   *)
(* same (action, coordinate) key, also when a target is next to several    *)
(* owned cells, and its entries are the moves of getValidMoves; the call   *)
(* changes nothing of the game, so a second call right after it returns    *)
(* the same moves (the step of decideMove that draws the fallback from     *)
(* getValidMoves leaves the value of getValidMoves as it was).             *)
(***************************************************************************)
C22_MovesOf(id) ==
    getValidMovesList(PlayerOf(Game, id), PlayerOf(Game, OtherId(id)), grid, specials)

C22_Range(moves) == {moves[i] : i \in 1 .. Len(moves)}

C22_NoTwoAlike(moves) ==
    \A i, j \in 1 .. Len(moves) : i # j => MoveKey(moves[i]) # MoveKey(moves[j])

C22_Unique ==
    \A id \in PlayerId :
        /\ C22_NoTwoAlike(C22_MovesOf(id))
        /\ C22_Range(C22_MovesOf(id))
              = getValidMoves(PlayerOf(Game, id), PlayerOf(Game, OtherId(id)), grid, specials)

C22_Step ==
    pc = "aiAfterLoop" =>
        \A id \in PlayerId :
            getValidMoves(PlayerOf(Game, id), PlayerOf(Game, OtherId(id)), grid, specials)'
                = getValidMoves(PlayerOf(Game, id), PlayerOf(Game, OtherId(id)), grid, specials)

C22_Repeats(pushed, move) ==
    \E i, j \in 1 .. Len(pushed) : i # j /\ pushed[i] = move /\ pushed[j] = move

C23_OnlyDiagonal(g, id, coord) ==
    /\ \E pos \in PlayerOf(g, id).positions :
          pos[1] \in {coord.row - 1, coord.row + 1} /\ pos[2] \in {coord.col - 1, coord.col + 1}
    /\ ~OrthogonallyAdjacent(g, id, coord)

C23_AdjacentIffDistanceOne ==
    \A id \in PlayerId, coord \in NearCoords :
        /\ isAdjacent(coord, PlayerOf(Game, id)) <=> OrthogonallyAdjacent(Game, id, coord)
        /\ C23_OnlyDiagonal(Game, id, coord) => ~isAdjacent(coord, PlayerOf(Game, id))

\* A Conquer has just been rejected for want of adjacency, and the side that
\* asked has an empty cell diagonal to its own cells and orthogonal to none,
\* for which the executor gives that answer.
C23_Witness ==
    /\ lastResult.outcome = "rejected"
    /\ lastResult.msg = "not adjacent"
    /\ \E coord \in AllCoords :
          /\ C23_OnlyDiagonal(Game, lastResult.playerId, coord)
          /\ getCell(grid, coord) = EmptyCell
          /\ validateAndExecuteConquer(Game, lastResult.playerId, coord).msg = "not adjacent"

(***************************************************************************)
(* C24: checkWinner returns the first side, side 0 before side 1, that     *)
(* owns at least VICTORY_CONDITION_CELLS (13) coordinates and null if      *)
(* neither does, on the players of every reachable state and on pairs of   *)
(* players with any counts around the threshold; in no reachable state do  *)
(* both sides own 13 coordinates or more.                                  *)
(***************************************************************************)
\* A player that owns the first n coordinates of the board, row by row.
C24_PlayerWith(id, n) ==
    [NewPlayer(id) EXCEPT
        !.positions = {p \in AllCoordStrs : p[1] * GRID_SIZE + p[2] < n}]

C24_Counts == {0, 1, 12, 13, 14, 25}

C24_FirstAtThreshold(count0, count1) ==
    IF count0 >= 13 THEN 0 ELSE IF count1 >= 13 THEN 1 ELSE NullId

C24_CheckWinner ==
    /\ checkWinner(players)
          = C24_FirstAtThreshold(Cardinality(players[1].positions),
                                 Cardinality(players[2].positions))
    /\ ~(Cardinality(players[1].positions) >= 13 /\ Cardinality(players[2].positions) >= 13)
    /\ \A n0, n1 \in C24_Counts :
          checkWinner(<<C24_PlayerWith(0, n0), C24_PlayerWith(1, n1)>>)
              = C24_FirstAtThreshold(n0, n1)

\* Side 1 has just taken its thirteenth cell while side 0 holds twelve:
\* checkWinner names side 1 and the game is over.
C24_Witness ==
    /\ lastResult.outcome = "processed"
    /\ lastResult.playerId = 1
    /\ Cardinality(players[2].positions) = 13
    /\ Cardinality(players[1].positions) = 12
    /\ checkWinner(players) = 1
    /\ isGameOver

(***************************************************************************)
(* C25: the victory conditions of the README: once a turn is completed the *)
(* game is over as soon as one side controls 13 cells or a side has been   *)
(* eliminated (owns no cell).                                              *)
(***************************************************************************)
C25_GameOverOnVictoryOrElimination ==
    (pc = "turnStart" /\ lastResult.outcome \in {"processed", "skipped"}) =>
        ((\E id \in PlayerId :
              \/ Cardinality(PlayerOf(Game, id).positions) >= 13
              \/ Cardinality(PlayerOf(Game, id).positions) = 0)
         => isGameOver)

(***************************************************************************)
(* C26: the sides alternate turns until the game is over.  Every step that *)
(* completes a turn without ending the game hands the move to the other    *)
(* side, also when the AI's turn was skipped or its action rejected, and   *)
(* the side to move changes on no other step; a human turn ends with       *)
(* exactly one processed action of that side and an AI turn with at most   *)
(* one (the game changes only on the step that processes the turn's        *)
(* action, and not again in the same turn); no step is taken once the game *)
(* is over.                                                                *)
(***************************************************************************)
C26_InTurn == pc \in {"human", "wellPrompt", "aiLoop", "aiAfterLoop", "aiDecided"}

C26_EndsTurn == C26_InTurn /\ pc' \in {"turnStart", "gameOver"}

C26_Step ==
    /\ ~isGameOver
    /\ C26_EndsTurn =>
          /\ isGameOver' = (checkWinner(players') # NullId)
          /\ pc' = "gameOver" <=> isGameOver'
          /\ ~isGameOver' => currentPlayerId' = OtherId(currentPlayerId)
          /\ lastResult'.playerId = currentPlayerId
          /\ IF pc \in {"human", "wellPrompt"}
             THEN lastResult'.outcome = "processed"
             ELSE lastResult'.outcome \in {"processed", "rejected", "skipped"}
    /\ ~C26_EndsTurn => currentPlayerId' = currentPlayerId /\ isGameOver' = isGameOver
    /\ <<grid, players, specials>>' # <<grid, players, specials>> =>
          /\ C26_InTurn
          /\ lastResult.outcome # "processed"
          /\ lastResult'.outcome = "processed"
          /\ lastResult'.playerId = currentPlayerId
    /\ (C26_InTurn /\ lastResult.outcome = "processed") =>
          \/ lastResult' = lastResult
          \/ pc' = "turnStart" /\ lastResult'.outcome = "processed"
          \/ pc' = "gameOver" /\ lastResult'.outcome = "processed"

C26_Alternation == [][C26_Step]_vars

\* Two turns are completed, the second by side 1 with a processed action,
\* the game goes on and it is side 0's turn again.
C26_Witness ==
    /\ pc = "turnStart"
    /\ turns = 2
    /\ lastResult.outcome = "processed"
    /\ lastResult.playerId = 1
    /\ currentPlayerId = 0
    /\ ~isGameOver

\* An AI turn was skipped and the move went back to side 0.
C26_WitnessSkipped ==
    /\ pc = "turnStart"
    /\ lastResult.outcome = "skipped"
    /\ lastResult.playerId = AI_PLAYER_ID
    /\ currentPlayerId = 0

(***************************************************************************)
(* C27: after the resolution of any Attack, won or lost, the sum of the    *)
(* two sides' owned-coordinate counts is not greater than before the       *)
(* Attack and not smaller than before by more than 1: on every step in     *)
(* which the executor resolves an Attack, whatever the dice.               *)
(***************************************************************************)
C27_OwnedSum(g) ==
    getPositionCount(PlayerOf(g, 0)) + getPositionCount(PlayerOf(g, 1))

C27_Step ==
    (lastResult' # lastResult /\ lastResult'.outcome = "processed"
     /\ lastResult'.action = "ATTACK") =>
        /\ C27_OwnedSum(Game') <= C27_OwnedSum(Game)
        /\ C27_OwnedSum(Game') >= C27_OwnedSum(Game) - 1

C27_AttackKeepsSum == [][C27_Step]_vars

\* An Attack has just been won: the target went from the defender to the
\* attacker, who holds at least two cells now.
C27_Witness ==
    /\ lastResult.outcome = "processed"
    /\ lastResult.action = "ATTACK"
    /\ lastResult.attackSuccessful
    /\ ownsPosition(PlayerOf(Game, lastResult.playerId), toCoordinateString(lastResult.coord))
    /\ ~ownsPosition(PlayerOf(Game, OtherId(lastResult.playerId)),
                     toCoordinateString(lastResult.coord))
    /\ getPositionCount(PlayerOf(Game, lastResult.playerId)) >= 2

(***************************************************************************)
(* C28: every action the executor has accepted (processPlayerAction        *)
(* returned true), offered again by the same side right afterwards on the  *)
(* new state, is no longer accepted: every accepted Expand, every accepted *)
(* Fortify and every accepted Attack.                                      *)
(***************************************************************************)
C28_AcceptedAgain ==
    ExecutorAccepts(Game, lastResult.playerId, lastResult.action, lastResult.coord)

C28_AcceptedActionNotRepeatable ==
    lastResult.outcome = "processed" => ~C28_AcceptedAgain

\* C28 as the code has it: an accepted Expand, an accepted Fortify and an
\* Attack that captured its target are not accepted a second time on the new
\* state; an accepted Attack that failed left the state as it was and is
\* accepted again.
C28_ChangedActionNotRepeatable ==
    lastResult.outcome = "processed" =>
        IF lastResult.action = "ATTACK" /\ ~lastResult.attackSuccessful
        THEN C28_AcceptedAgain
        ELSE ~C28_AcceptedAgain

\* An Attack has just been accepted and lost; the same Attack would be
\* accepted again.
C28_Witness ==
    /\ lastResult.outcome = "processed"
    /\ lastResult.action = "ATTACK"
    /\ ~lastResult.attackSuccessful
    /\ lastResult.attackRoll <= lastResult.defenseRoll
    /\ C28_AcceptedAgain

\* An Expand has just been accepted; the same Expand is rejected now.
C28_WitnessExpand ==
    /\ lastResult.outcome = "processed"
    /\ lastResult.action = "CONQUER"
    /\ ~C28_AcceptedAgain

(***************************************************************************)
(* C29: a magicWellTargetCoord carried by the move decideMove returns is a *)
(* cell the acting side owns at decision time, and is there only if that   *)
(* side owns a Magic Well; a WELL_TARGET line of the reply that is         *)
(* malformed, off the board, not owned, or sent for a side without a Magic *)
(* Well is dropped and the attempt gives what the same reply without the   *)
(* line gives: the main action is accepted or refused as without it, so no *)
(* further attempt is spent on it.                                         *)
(***************************************************************************)
C29_Carried(move, g, id) ==
    move.magicWellTargetCoord # NullCoord =>
        /\ move.magicWellTargetCoord \in AllCoords
        /\ toCoordinateString(move.magicWellTargetCoord) \in PlayerOf(g, id).positions
        /\ PlayerOf(g, id).ownedMagicWells # {}

C29_WithoutWellLine(reply) ==
    [reply EXCEPT !.wellLabel = "", !.wellToken = MalformedToken]

\* The second line of the reply names no cell the side may boost.
C29_WellLineInvalid(reply, g, id) ==
    \/ reply.wellLabel # "WELL_TARGET"
    \/ reply.wellToken \notin {formatCoordForUser(c) : c \in AllCoords}
    \/ <<reply.wellToken.letter, reply.wellToken.num - 1>> \notin PlayerOf(g, id).positions
    \/ PlayerOf(g, id).ownedMagicWells = {}

C29_WellTargetValidated ==
    /\ pc = "aiDecided" => C29_Carried(aiMove, Game, currentPlayerId)
    /\ pc \in {"aiLoop", "aiAfterLoop"} => C29_Carried(parsedResponse, Game, currentPlayerId)
    /\ pc = "aiLoop" =>
          \A reply \in Replies :
              /\ MainMove(DecideAttempt(Game, currentPlayerId, reply))
                    = MainMove(DecideAttempt(Game, currentPlayerId, C29_WithoutWellLine(reply)))
              /\ C29_Carried(DecideAttempt(Game, currentPlayerId, reply), Game, currentPlayerId)
              /\ C29_WellLineInvalid(reply, Game, currentPlayerId) =>
                    DecideAttempt(Game, currentPlayerId, reply)
                        = DecideAttempt(Game, currentPlayerId, C29_WithoutWellLine(reply))

\* decideMove returns the move of the first reply with the Magic Well target
\* that reply named, for an AI that owns a Magic Well; another reply with the
\* same main action and a WELL_TARGET line naming a cell of the opponent
\* would have been taken too, without the target.
C29_Witness ==
    /\ pc = "aiDecided"
    /\ ~usedFallback
    /\ attempts = 1
    /\ aiMove # NullMove
    /\ aiMove = parsedResponse
    /\ aiMove.magicWellTargetCoord # NullCoord
    /\ ownsAnyMagicWell(PlayerOf(Game, currentPlayerId))
    /\ \E reply \in Replies :
          /\ reply.wellLabel = "WELL_TARGET"
          /\ parseCoordinateInput(reply.wellToken) # NullCoord
          /\ ~ownsPosition(PlayerOf(Game, currentPlayerId),
                           toCoordinateString(parseCoordinateInput(reply.wellToken)))
          /\ DecideAttempt(Game, currentPlayerId, reply)
                = [aiMove EXCEPT !.magicWellTargetCoord = NullCoord]

(***************************************************************************)
(* C30: the dice.  The attack roll is its base in 1..6 plus exactly 1 if   *)
(* the attacker owns at least one Power Source, the same 1 for one and for *)
(* several, so it is in 1..7; the defense roll is its base in 1..6 plus 1  *)
(* if the target is shielded plus 1 iff the boosted coordinate passed in   *)
(* is the defended coordinate, so it is in 1..8.  For the players of every *)
(* reachable state and a player with two Power Sources, every base, every  *)
(* defended cell and a boosted coordinate that is absent, that cell, its   *)
(* mirror image or the corner; and for the rolls of the Attack just        *)
(* resolved.                                                               *)
(***************************************************************************)
\* Player id with Power Sources on its first two cells of the top row.
C30_TwoSources(id) ==
    [NewPlayer(id) EXCEPT !.positions = {<<0, 0>>, <<0, 1>>, <<0, 2>>},
                          !.ownedPowerSources = {<<0, 0>>, <<0, 1>>}]

C30_Attackers == {players[1], players[2], C30_TwoSources(0), NewPlayer(1)}

C30_DiceArithmetic ==
    /\ \A attacker \in C30_Attackers, base \in 1 .. 6 :
          /\ rollAttackDice(attacker, base)
                = base + (IF attacker.ownedPowerSources # {} THEN 1 ELSE 0)
          /\ rollAttackDice(attacker, base) \in 1 .. 7
    /\ \A defender \in {PlayerOf(Game, OtherId(currentPlayerId))}, base \in 1 .. 6,
          isShielded \in BOOLEAN, coord \in AllCoords :
          \A boosted \in {NullCoordStr, <<0, 0>>, <<coord.row, coord.col>>,
                          <<coord.col, coord.row>>} :
              /\ rollDefenseDice(defender, coord, isShielded, boosted, base)
                    = base + (IF isShielded THEN 1 ELSE 0)
                           + (IF boosted = <<coord.row, coord.col>> THEN 1 ELSE 0)
              /\ rollDefenseDice(defender, coord, isShielded, boosted, base) \in 1 .. 8
    /\ (lastResult.outcome = "processed" /\ lastResult.action = "ATTACK") =>
          /\ lastResult.attackBase \in 1 .. 6
          /\ lastResult.defenseBase \in 1 .. 6
          /\ lastResult.attackRoll - lastResult.attackBase \in {0, 1}
          /\ lastResult.defenseRoll - lastResult.defenseBase \in {0, 1, 2}
          /\ lastResult.defenseRoll - lastResult.defenseBase >=
                (IF lastResult.targetSpecial = Shield THEN 1 ELSE 0)

\* An Attack has just been resolved in which the owner of a Power Source
\* rolled a 6 and attacked with 7.
C30_Witness ==
    /\ lastResult.outcome = "processed"
    /\ lastResult.action = "ATTACK"
    /\ lastResult.attackBase = 6
    /\ lastResult.attackRoll = 7
    /\ ownsAnyPowerSource(PlayerOf(Game, lastResult.playerId))

\* A shielded cell has just been defended with a roll of 6 plus the Shield.
C30_WitnessShield ==
    /\ lastResult.outcome = "processed"
    /\ lastResult.action = "ATTACK"
    /\ lastResult.targetSpecial = Shield
    /\ lastResult.defenseBase = 6
    /\ lastResult.defenseRoll = 7

(***************************************************************************)
(* C31: setupInitialState returns within its attempt budget, and when it   *)
(* has returned side 0 owns exactly (0,0), side 1 owns exactly (N-1,N-1)   *)
(* and the overlay holds at most INITIAL_SPECIAL_CELLS (3) items, each on  *)
(* a coordinate of its own that is Empty and is neither seed (the overlay  *)
(* has one entry for every placement counted).                             *)
(***************************************************************************)
C31_Seeds == {<<0, 0>>, <<GRID_SIZE - 1, GRID_SIZE - 1>>}

C31_Placed ==
    /\ Cardinality(DOMAIN specials) = specialsPlaced
    /\ specialsPlaced <= 3
    /\ \A coordStr \in DOMAIN specials :
          /\ coordStr \in AllCoordStrs \ C31_Seeds
          /\ grid[coordStr[1]][coordStr[2]] = EmptyCell
          /\ specials[coordStr] \in {PowerSource, MagicWell, Shield}

C31_SetupState ==
    /\ attempts <= 2 * GRID_SIZE * GRID_SIZE
    /\ pc \in {"setupLoop", "setupDone"} => C31_Placed
    /\ pc = "setupDone" =>
          /\ players[1].positions = {<<0, 0>>}
          /\ players[2].positions = {<<GRID_SIZE - 1, GRID_SIZE - 1>>}
          /\ \A coord \in AllCoords :
                getCell(grid, coord) # EmptyCell <=> <<coord.row, coord.col>> \in C31_Seeds

C31_SetupTerminates == []C31_SetupState /\ <>(pc = "setupDone")

\* setupInitialState has returned after five draws, two of them the seeds,
\* with the three items of the centre start on the board.
C31_Witness ==
    /\ pc = "setupDone"
    /\ attempts = 5
    /\ specialsPlaced = 3
    /\ Game = setupInitialState(SitesOnCentre)

(***************************************************************************)
(* C32: only one side's owned-coordinate count changes per resolved        *)
(* action: on every step that processes an Expand, a Fortify or an Attack  *)
(* (won or lost), at most one of the two sides has another count after the *)
(* step than before it.                                                    *)
(***************************************************************************)
C32_Resolves ==
    lastResult' # lastResult /\ lastResult'.outcome = "processed"

C32_Changed(id) ==
    getPositionCount(players'[id + 1]) # getPositionCount(players[id + 1])

C32_OneCountChanges ==
    [][C32_Resolves => ~(C32_Changed(0) /\ C32_Changed(1))]_vars

\* C32 as the code has it: a resolved action raises the count of at most one
\* side, the acting one, and by 1; an Expand changes the actor's count only,
\* a Fortify and a lost Attack change neither, and a won Attack changes
\* both: the attacker gains the cell the defender loses.
C32_Gain(id) ==
    getPositionCount(players'[id + 1]) - getPositionCount(players[id + 1])

C32_StepAsCoded ==
    C32_Resolves =>
        \A actor \in PlayerId :
            actor = lastResult'.playerId =>
                /\ C32_Gain(OtherId(actor)) <= 0
                /\ C32_Gain(actor) \in {0, 1}
                /\ IF lastResult'.action = "ATTACK" /\ lastResult'.attackSuccessful
                   THEN C32_Gain(actor) = 1 /\ C32_Gain(OtherId(actor)) = -1
                   ELSE IF lastResult'.action = "CONQUER"
                   THEN C32_Gain(actor) = 1 /\ C32_Gain(OtherId(actor)) = 0
                   ELSE C32_Gain(actor) = 0 /\ C32_Gain(OtherId(actor)) = 0

C32_AtMostOneCountGrows == [][C32_StepAsCoded]_vars

\* An Attack has just been won against a defender that had several cells
\* and keeps some: the target has changed hands.
C32_Witness ==
    /\ lastResult.outcome = "processed"
    /\ lastResult.action = "ATTACK"
    /\ lastResult.attackSuccessful
    /\ toCoordinateString(lastResult.coord) \in PlayerOf(Game, lastResult.playerId).positions
    /\ PlayerOf(Game, OtherId(lastResult.playerId)).positions # {}

(***************************************************************************)
(* C33: board and ledgers agree in every reachable state: a cell carries   *)
(* the mark of side s iff its coordinate is in s's owned set, a cell is    *)
(* Empty iff neither side owns it, and the owned sets of the two sides are *)
(* disjoint (and hold coordinates of the board only).                      *)
(***************************************************************************)
C33_BoardMatchesLedgers ==
    /\ \A coord \in AllCoords, id \in PlayerId :
          getCell(grid, coord) = PLAYER_MARKS[id + 1]
              <=> <<coord.row, coord.col>> \in players[id + 1].positions
    /\ \A coord \in AllCoords :
          getCell(grid, coord) = EmptyCell
              <=> \A id \in PlayerId : <<coord.row, coord.col>> \notin players[id + 1].positions
    /\ players[1].positions \cap players[2].positions = {}
    /\ players[1].positions \cup players[2].positions \subseteq AllCoordStrs

\* A cell has just changed hands in an Attack: it carries the attacker's
\* mark now and the defender, who keeps other cells, has it no longer.
C33_Witness ==
    /\ lastResult.outcome = "processed"
    /\ lastResult.action = "ATTACK"
    /\ lastResult.attackSuccessful
    /\ getCell(grid, lastResult.coord) = PLAYER_MARKS[lastResult.playerId + 1]
    /\ getPositionCount(PlayerOf(Game, OtherId(lastResult.playerId))) >= 1
    /\ getPositionCount(PlayerOf(Game, lastResult.playerId)) >= 2

(***************************************************************************)
(* C34: in every reachable state a Power Source or Magic Well of the       *)
(* overlay sits on an Empty cell only: every overlay entry on an owned     *)
(* cell is a Shield.  So the Fortify and the Attack that the executor      *)
(* processes never find a Power Source or a Magic Well in the overlay at   *)
(* their target, and the branches that handle one are never taken.         *)
(***************************************************************************)
C34_OverlayItemsOnEmptyCells ==
    /\ \A coordStr \in DOMAIN specials :
          /\ coordStr \in AllCoordStrs
          /\ specials[coordStr] \in {PowerSource, MagicWell} =>
                getCell(grid, fromCoordinateString(coordStr)) = EmptyCell
          /\ getCell(grid, fromCoordinateString(coordStr)) # EmptyCell =>
                specials[coordStr] = Shield
    /\ (lastResult.outcome = "processed" /\ lastResult.action \in {"FORTIFY", "ATTACK"}) =>
          lastResult.targetSpecial \in {Null, Shield}

\* A Power Source has just been conquered: the cell is owned, its overlay
\* entry is gone and the item is in the conqueror's set.
C34_Witness ==
    /\ lastResult.outcome = "processed"
    /\ lastResult.action = "CONQUER"
    /\ lastResult.targetSpecial = PowerSource
    /\ toCoordinateString(lastResult.coord) \notin DOMAIN specials
    /\ toCoordinateString(lastResult.coord)
          \in PlayerOf(Game, lastResult.playerId).ownedPowerSources
    /\ getCell(grid, lastResult.coord) # EmptyCell

\* A cell that holds a captured Power Source has just been fortified: the
\* overlay had no entry for it.
C34_WitnessFortify ==
    /\ lastResult.outcome = "processed"
    /\ lastResult.action = "FORTIFY"
    /\ lastResult.targetPower
    /\ lastResult.targetSpecial = Null

(***************************************************************************)
(* C35: the Magic Well defense bonus is in no defense roll.  At every      *)
(* Attack the executor resolves the bonus slot is empty, because the start *)
(* of the attacker's turn cleared it, so rollDefenseDice gets no boosted   *)
(* coordinate and the defense roll is the base plus the Shield at most;    *)
(* and a slot that is filled names as beneficiary the opponent of the side *)
(* that nominated the cell, not its owner.                                 *)
(***************************************************************************)
C35_SlotEmpty ==
    magicWellBonusTarget = NullCoordStr /\ magicWellBonusActiveForPlayerId = NullId

C35_State ==
    /\ pc \in {"human", "aiLoop", "aiAfterLoop", "aiDecided"} => C35_SlotEmpty
    /\ ~C35_SlotEmpty =>
          /\ magicWellBonusActiveForPlayerId \in PlayerId
          /\ magicWellBonusTarget
                \in PlayerOf(Game, OtherId(magicWellBonusActiveForPlayerId)).positions
    /\ (lastResult.outcome = "processed" /\ lastResult.action = "ATTACK") =>
          lastResult.defenseRoll
              = lastResult.defenseBase + (IF lastResult.targetSpecial = Shield
                                          THEN SHIELD_DEFENSE_MODIFIER ELSE 0)

C35_Step ==
    (lastResult' # lastResult /\ lastResult'.outcome = "processed"
     /\ lastResult'.action = "ATTACK") => C35_SlotEmpty

C36_OwnerCanAct ==
    ~isGameOver =>
        \A id \in PlayerId :
            NoAcceptedAction(Game, id) <=> PlayerOf(Game, id).positions = {}

\* A side whose every cell carries a Shield, so that it has no Fortify, can
\* still act on a neighbour; the game is not over.
C36_Witness ==
    /\ ~isGameOver
    /\ lastResult.outcome = "processed"
    /\ \E id \in PlayerId :
          /\ PlayerOf(Game, id).positions # {}
          /\ \A coordStr \in PlayerOf(Game, id).positions :
                SpecialAt(specials, coordStr) = Shield
          /\ \A coord \in AllCoords : ~ExecutorAccepts(Game, id, "FORTIFY", coord)
          /\ \E coord \in AllCoords : ExecutorAccepts(Game, id, "CONQUER", coord)

\* A side has lost its last cell and no action of it is accepted.
C36_WitnessEliminated ==
    /\ ~isGameOver
    /\ lastResult.outcome = "processed"
    /\ \E id \in PlayerId :
          PlayerOf(Game, id).positions = {} /\ NoAcceptedAction(Game, id)

(***************************************************************************)
(* C37: a claimed cell never becomes Empty again.  On every step the cells *)
(* that are not Empty stay not Empty and the sum of the two sides'         *)
(* owned-coordinate counts does not decrease; the sum grows by exactly 1   *)
(* on the step that processes an Expand and stays as it is on the step     *)
(* that processes a Fortify or an Attack, and on every other step.         *)
(***************************************************************************)
C37_Sum(ps) == getPositionCount(ps[1]) + getPositionCount(ps[2])

C37_Step ==
    /\ \A coord \in AllCoords :
          getCell(grid, coord) # EmptyCell => getCell(grid', coord) # EmptyCell
    /\ C37_Sum(players') >= C37_Sum(players)
    /\ IF lastResult' # lastResult /\ lastResult'.outcome = "processed"
          /\ lastResult'.action = "CONQUER"
       THEN C37_Sum(players') = C37_Sum(players) + 1
       ELSE C37_Sum(players') = C37_Sum(players)

C37_ClaimedCellsStayClaimed == [][C37_Step]_vars

\* Two turns have been played, an Expand and then an Attack that was won:
\* the cell taken in the Attack is still claimed.
C37_Witness ==
    /\ turns = 2
    /\ lastResult.outcome = "processed"
    /\ lastResult.action = "ATTACK"
    /\ lastResult.attackSuccessful
    /\ getCell(grid, lastResult.coord) # EmptyCell
    /\ \E start \in Starts :
          C37_Sum(players)
              = C37_Sum(Replay(setupInitialState(start.sites), start.opening, 0).players) + 1

(***************************************************************************)
(* C38: whenever the game ends, the winner checkWinner reports is the side *)
(* that performed the last action.  The game-over flag is set only at the  *)
(* end of a turn in which the acting side's count reached the threshold    *)
(* with a processed Expand or Attack, the side that did not act is below   *)
(* the threshold, and once the flag is set the winner is the side whose    *)
(* turn it was.                                                            *)
(***************************************************************************)
C38_State ==
    isGameOver =>
        /\ pc = "gameOver"
        /\ lastResult.outcome = "processed"
        /\ lastResult.action \in {"CONQUER", "ATTACK"}
        /\ lastResult.playerId = currentPlayerId
        /\ checkWinner(players) = currentPlayerId
        /\ getPositionCount(PlayerOf(Game, currentPlayerId)) = 13
        /\ getPositionCount(PlayerOf(Game, OtherId(currentPlayerId))) < 13

C38_Step ==
    (isGameOver' /\ ~isGameOver) =>
        /\ pc \in {"human", "wellPrompt", "aiDecided"}
        /\ currentPlayerId' = currentPlayerId
        /\ lastResult'.playerId = currentPlayerId
        /\ checkWinner(players') = currentPlayerId

C38_WinnerActedLast == []C38_State /\ [][C38_Step]_vars

\* Side 0 has just taken its thirteenth cell in the first turn: the game is
\* over and checkWinner names side 0, which has acted last.
C38_Witness ==
    /\ isGameOver
    /\ turns = 1
    /\ lastResult.playerId = 0
    /\ checkWinner(players) = 0
    /\ getPositionCount(players[2]) = 12

\* Side 1 has won in the second turn, by an Expand onto a Magic Well after
\* which it named the cell to boost.
C38_WitnessSecond ==
    /\ isGameOver
    /\ turns = 2
    /\ lastResult.playerId = 1
    /\ checkWinner(players) = 1
    /\ magicWellBonusTarget # NullCoordStr

(***************************************************************************)
(* C39: after setup no special item is created except Shields.  In every   *)
(* reachable state the Power Sources, counted over the overlay and the two *)
(* sides' Power Source sets, are at most 1 and no step raises their        *)
(* number, and likewise the Magic Wells; so at most one side owns a Power  *)
(* Source at any time.                                                     *)
(***************************************************************************)
C39_InOverlay(sp, type) == Cardinality({k \in DOMAIN sp : sp[k] = type})

C39_PowerSources(sp, ps) ==
    C39_InOverlay(sp, PowerSource)
    + Cardinality(ps[1].ownedPowerSources) + Cardinality(ps[2].ownedPowerSources)

C39_MagicWells(sp, ps) ==
    C39_InOverlay(sp, MagicWell)
    + Cardinality(ps[1].ownedMagicWells) + Cardinality(ps[2].ownedMagicWells)

C39_State ==
    /\ C39_PowerSources(specials, players) <= 1
    /\ C39_MagicWells(specials, players) <= 1
    /\ ~(ownsAnyPowerSource(players[1]) /\ ownsAnyPowerSource(players[2]))

C39_Step ==
    /\ C39_PowerSources(specials', players') <= C39_PowerSources(specials, players)
    /\ C39_MagicWells(specials', players') <= C39_MagicWells(specials, players)

C39_NoItemCreated == []C39_State /\ [][C39_Step]_vars

\* A cell holding a captured Power Source has just been taken in an Attack:
\* the item left the defender's set and no Power Source is left anywhere.
C39_Witness ==
    /\ lastResult.outcome = "processed"
    /\ lastResult.action = "ATTACK"
    /\ lastResult.attackSuccessful
    /\ lastResult.targetPower
    /\ C39_PowerSources(specials, players) = 0

\* A Power Source has just been conquered: it is the only one and it is in
\* the conqueror's set.
C39_WitnessConquered ==
    /\ lastResult.outcome = "processed"
    /\ lastResult.action = "CONQUER"
    /\ lastResult.targetSpecial = PowerSource
    /\ C39_PowerSources(specials, players) = 1
    /\ ownsAnyPowerSource(PlayerOf(Game, lastResult.playerId))

(***************************************************************************)
(* C40: decideMove reads the game and writes nothing of it.  On every step *)
(* of the call, whatever the reply, the attempt and the outcome (accepted  *)
(* suggestion, fallback or null), the cell marks, both sides' owned sets   *)
(* and Power Source and Magic Well sets, the overlay and the bonus slot    *)
(* are after the step what they were before it.                            *)
(***************************************************************************)
C40_Step ==
    pc \in {"aiLoop", "aiAfterLoop"} =>
        /\ grid' = grid
        /\ players' = players
        /\ specials' = specials
        /\ magicWellBonusTarget' = magicWellBonusTarget
        /\ magicWellBonusActiveForPlayerId' = magicWellBonusActiveForPlayerId

C40_DecideMoveReadOnly == [][C40_Step]_vars

\* decideMove has used its whole budget and returns a fallback move for an
\* AI that owns a Magic Well, with a target it drew for the Well.
C40_Witness ==
    /\ pc = "aiDecided"
    /\ usedFallback
    /\ attempts = AI_MAX_RETRIES + 1
    /\ aiMove # NullMove
    /\ aiMove.magicWellTargetCoord # NullCoord
    /\ magicWellBonusTarget = NullCoordStr

\* decideMove returns null.
C40_WitnessNull ==
    pc = "aiDecided" /\ usedFallback /\ aiMove = NullMove

\* decideMove returns the suggestion of its second attempt.
C40_WitnessAccepted ==
    pc = "aiDecided" /\ ~usedFallback /\ attempts = 2 /\ aiMove # NullMove

====
